---- MODULE Spec2Model ----
(***************************************************************************)
(* Model of the evolutionary program search: the worker pool manager       *)
(* (evolution/client.py), the generation controller (evolution/main.py),   *)
(* the program repository (evolution/program_library.py), the evaluation   *)
(* cache (utils/cache_manager.py) and the remote worker                    *)
(* (evaluator_worker.py).                                                  *)
(***************************************************************************)
EXTENDS Integers, Sequences, FiniteSets, TLC

(***************************************************************************)
(* Bounds of the model.                                                    *)
(***************************************************************************)
MaxHosts == 2        \* hosts in ip_pool
MaxCalls == 5        \* concurrent execute_evaluation_auto calls of a batch
MaxEvals == 2        \* calls of a batch when every step of a call is modelled
MaxRepeats == 3      \* calls of a batch that evaluate through the cache
MaxPool == 2         \* largest program_pool_size of the controller
MaxIterations == 2   \* largest max_iterations of the controller
MaxTimeout == 2      \* largest timeout_sec of a wait_for_result, in seconds
MaxDelay == 1        \* largest delay of one sleep of wait_for_result, in seconds
MaxPrograms == 3     \* programs of the repository that is sampled
MaxN == 1            \* largest n of sample_parent_inspiration_pairs
MaxPoolSize == 3     \* largest program_pool_size of sample_parent_inspiration_pairs
MaxAdds == 1         \* programs an add_program sequence stores
MaxStored == 3       \* programs added to the stored repository
MaxTime == 1         \* seconds that pass while the stored repository is used
MaxRetries == 5      \* largest retries of a text-generation backend
MaxText == 6         \* longest text-generation output, in tokens
MaxJobs == 2         \* calls of a batch when the tmux sessions are followed

Hosts == 1..MaxHosts
Calls == 1..MaxCalls
Codes == {"p", "q"}  \* candidate program texts

PollInterval == 1    \* poll_interval of wait_for_result, in seconds
NoIp == 0            \* Python None for an ip
NoCode == "-"        \* no code (the call has no frame)
NoEntry == <<>>      \* dict.get() found nothing
NoResult == [kind |-> "none"]
Raised == [kind |-> "raised"]

(***************************************************************************)
(* Metric maps the evaluators return (values scaled by Scale: 1.0 = Scale).*)
(* DictatorGameEvaluator.evaluate returns runs_successfully 1.0 with a     *)
(* bic_score in [0,1], or runs_successfully 0.0 and bic_score 0.0 when     *)
(* anything raised inside it.                                              *)
(***************************************************************************)
Scale == 20
BicValues == {1}
EvaluateReturns ==
    { [runs_successfully |-> Scale, bic_score |-> b] : b \in BicValues }
    \cup { [runs_successfully |-> 0, bic_score |-> 0] }

NoMetrics == [absent |-> TRUE]   \* Python None for 'result'

(***************************************************************************)
(* What evaluator_worker.main writes to the result artifact: success with  *)
(* the evaluator's metrics when evaluate returned, success = false with    *)
(* the error text when anything raised.                                    *)
(***************************************************************************)
WorkerOutputs ==
    { [success |-> TRUE, result |-> m, error |-> "none"] : m \in EvaluateReturns }
    \cup { [success |-> FALSE, result |-> NoMetrics, error |-> "worker"] }

Absent == [absent |-> TRUE]      \* the result artifact does not exist

\* the result artifact exists, its content is not (yet) a JSON document:
\* write_text of the worker is not atomic
Malformed == [malformed |-> TRUE]

VARIABLES
    available_ips,    \* manager.available_ips: sequence of connected hosts
    occupied_ips,     \* manager._occupied_ips
    cache_mode,       \* "none": cache is None; "ok"; "unserializable": the
                      \* evaluation_config cannot be dumped to a cache key
    cache_data,       \* SimpleCacheManager.cache_data: key -> response string
    wait_timeout,     \* wait_timeout of the batch's calls: "none", "zero", "pos"
    pc,               \* position of every execute_evaluation_auto call
    ip,               \* local ip of execute_evaluation_auto
    code,             \* argument code of the call
    cached_response,  \* local cached_response of execute_evaluation
    wrote_task,       \* the call wrote its task artifact (code file)
    issued_cmd,       \* the call issued a command to its host
    artifact,         \* result artifact of the call's task
    result,           \* value the call returns (or Raised)
    lingering,        \* per host: jobs still running whose evaluation timed out
    returned_completed, \* per code: the completed result returned last (or NoResult)
    prior             \* returned_completed of the call's code at its cache lookup

VARIABLES
    eng_pc,           \* position of run_evolution / create_generation
    eng_error,        \* what raised out of run_evolution ("none" while it runs)
    max_iterations,   \* evolution_setting.max_iterations
    pool_size,        \* evolution_setting.program_pool_size
    generation,       \* argument generation of create_generation
    program_list,     \* local program_list of create_generation
    parent_ids_list,  \* local parent_ids_list of create_generation
    fold_i,           \* index of the fold loop over the evaluation results
    programs,         \* ProgramLibrary.programs, in insertion order
    snapshot,         \* content of the snapshot file written last
    gen_log,          \* generation indexes create_generation was called with
    save_log          \* generation indexes whose snapshot was saved

VARIABLES
    timeout_sec,      \* argument timeout_sec of wait_for_result, in seconds
    clock,            \* time.time() - start_time, in seconds
    elapsed           \* local elapsed of wait_for_result, as computed last

VARIABLES
    task_id,          \* local task_id of execute_evaluation (0: none yet)
    next_task,        \* number of task ids uuid4 has produced
    sessions,         \* per host: names of the tmux sessions that exist
    killed,           \* sessions a command of the manager has ended
    connected         \* the manager's transport to the hosts is open

VARIABLES
    add_arg,          \* argument metrics of the add_program called last
    add_outcome,      \* how that add_program ended: "stored" or "rejected"
    sample_pc,        \* position of sample_parent_inspiration_pairs
    n_arg,            \* its argument n
    pool_arg,         \* its argument program_pool_size
    pool,             \* its local pool
    remaining,        \* its local remaining
    fronts,           \* its local fronts
    steps,            \* passes of its while loop so far
    empty_front,      \* a pass of the while loop found no non-dominated program
    pairs             \* its local pairs

VARIABLES
    files,            \* the storage directory: snapshot file name -> what is written
    now,              \* seconds passed since StartTime
    save_pc,          \* position of save(): "idle" or "writing"
    save_name,        \* file name save() writes to
    save_data,        \* local data of save(): the entries to dump
    lib_state,        \* "live", "restored", "down" (process ended), "load_error"
    store_op          \* the repository operation that acted last

VARIABLES
    ssh_pc,           \* position of the transport scope
    private_key,      \* "unread", "loaded" or "failed"
    connections,      \* self.connections: the hosts with a registered session
    failed_connections, \* local failed_connections of __enter__
    ssh_i,            \* index of the running for loop
    open_clients,     \* hosts whose client is connected and not closed
    exec_results,     \* results of execute_on_all
    block_raised,     \* the governed block raised an exception
    leaving,          \* the exception that leaves the with statement
    install_code      \* returncode of the dependency install (-1: not run)

VARIABLES
    llm_backend,      \* the text-generation backend of the _generate call
    llm_retries,      \* config.retries
    llm_pc,           \* position of _generate
    llm_attempt,      \* loop variable attempt
    llm_failed,       \* attempts that ended with an exception
    llm_sleeps        \* asyncio.sleep(retry_delay) calls made

VARIABLES
    gen_pc,           \* position of gen_program
    original_code,    \* the text self.llm.generate returned
    program_code      \* the text extract_code returned

VARIABLES
    worker_pc,        \* position of main of evaluator_worker.py
    evaluated,        \* what evaluator.evaluate did: returned or raised
    worker_result,    \* the local dict result
    output_file,      \* content of the result artifact
    writes            \* write_text calls made on the result artifact

engvars == <<eng_pc, eng_error, max_iterations, pool_size, generation, program_list,
             parent_ids_list, fold_i, programs, snapshot, gen_log, save_log>>

poolvars == <<available_ips, occupied_ips, cache_mode, cache_data, wait_timeout,
              pc, ip, code, cached_response, wrote_task, issued_cmd, artifact,
              result, lingering, returned_completed, prior>>

waitvars == <<timeout_sec, clock, elapsed>>

jobvars == <<task_id, next_task, sessions, killed, connected>>

libvars == <<add_arg, add_outcome, sample_pc, n_arg, pool_arg, pool, remaining,
             fronts, steps, empty_front, pairs>>

storevars == <<files, now, save_pc, save_name, save_data, lib_state, store_op>>

sshvars == <<ssh_pc, private_key, connections, failed_connections, ssh_i,
             open_clients, exec_results, block_raised, leaving, install_code>>

llmvars == <<llm_backend, llm_retries, llm_pc, llm_attempt, llm_failed, llm_sleeps>>

genvars == <<gen_pc, original_code, program_code>>

workervars == <<worker_pc, evaluated, worker_result, output_file, writes>>

extvars == <<llmvars, genvars, workervars>>

auxvars == <<waitvars, jobvars, libvars, storevars, sshvars, extvars>>

vars == <<poolvars, engvars, auxvars>>

(***************************************************************************)
(* Result dictionaries of execute_evaluation / execute_evaluation_auto.    *)
(* completed is "absent" when the dictionary has no 'completed' key.       *)
(***************************************************************************)
ResultDict(completed, success, res, error, host) ==
    [kind |-> "dict", completed |-> completed, success |-> success,
     result |-> res, error |-> error, ip |-> host]

NoIpResult == ResultDict("absent", FALSE, NoMetrics, "no ip", NoIp)
LaunchFailure(host) == ResultDict("absent", FALSE, NoMetrics, "tmux", host)
SubmitException(host) == ResultDict("absent", FALSE, NoMetrics, "submit", host)
TimeoutResult == [kind |-> "dict", completed |-> "no", success |-> FALSE,
                  result |-> NoMetrics, error |-> "timeout", ip |-> NoIp]

\* json.dumps / json.loads of a result dictionary: a string of the fields
JsonDumps(r) == <<r.completed, r.success, r.result, r.error, r.ip>>
JsonLoads(s) == [kind |-> "dict", completed |-> s[1], success |-> s[2],
                 result |-> s[3], error |-> s[4], ip |-> s[5]]

\* SimpleCacheManager._generate_cache_key over {"code": code, **evaluation_config}
\* (the evaluation_config of a manager never changes)
GenerateCacheKey(c) == <<"code", c>>

CacheKeys == { GenerateCacheKey(c) : c \in Codes }

GetCachedResponse(c) == cache_data[GenerateCacheKey(c)]

CacheResponse(response, c) ==
    [cache_data EXCEPT ![GenerateCacheKey(c)] = response]

\* faulty variant: an artifact that json.loads rejects counts as completed
CheckEvaluationResult_PartialCompleted(a) ==
    IF a = Absent
    THEN [kind |-> "dict", completed |-> "no", success |-> FALSE,
          result |-> NoMetrics, error |-> "none", ip |-> NoIp]
    ELSE IF a = Malformed
    THEN [kind |-> "dict", completed |-> "yes", success |-> FALSE,
          result |-> NoMetrics, error |-> "json", ip |-> NoIp]
    ELSE [kind |-> "dict", completed |-> "yes", success |-> a.success,
          result |-> a.result, error |-> a.error, ip |-> NoIp]

\* check_evaluation_result: the dictionary read from a present result
\* artifact; a missing one and one that json.load rejects are not completed
CheckEvaluationResult(a) ==
    IF a = Absent
    THEN [kind |-> "dict", completed |-> "no", success |-> FALSE,
          result |-> NoMetrics, error |-> "none", ip |-> NoIp]
    ELSE IF a = Malformed
    THEN [kind |-> "dict", completed |-> "no", success |-> FALSE,
          result |-> NoMetrics, error |-> "json", ip |-> NoIp]
    ELSE [kind |-> "dict", completed |-> "yes", success |-> a.success,
          result |-> a.result, error |-> a.error, ip |-> NoIp]

(***************************************************************************)
(* acquire_ip: under the lock, the first host of available_ips that is not *)
(* in _occupied_ips.                                                       *)
(***************************************************************************)
\* faulty variant: the scan does not look at _occupied_ips
FreeIps_IgnoreOccupied == 1..Len(available_ips)

FreeIps == { i \in 1..Len(available_ips) : available_ips[i] \notin occupied_ips }

\* faulty variant: the scan returns the first host of the pool, free or not
FirstFreeIp_Head == available_ips[1]

FirstFreeIp == available_ips[CHOOSE i \in FreeIps : \A j \in FreeIps : i <= j]

(***************************************************************************)
(* Jobs launched by the manager that have not yet written their result     *)
(* artifact, per host: the job of the call now polling on the host, and    *)
(* the jobs left running when their evaluation timed out.                  *)
(***************************************************************************)
PolledJobs(h) ==
    { c \in Calls : pc[c] = "poll" /\ ip[c] = h /\ artifact[c] = Absent }

InFlight(h) == Cardinality(PolledJobs(h)) + lingering[h]

(***************************************************************************)
(* execute_evaluation_auto, first half: ip = self.acquire_ip(wait_timeout) *)
(***************************************************************************)
\* acquire_ip finds a free host under the lock, marks it occupied, returns it
AcquireIp(c) ==
    /\ pc[c] \in {"acquire", "sleep_acquire"}
    /\ FreeIps # {}
    /\ ip' = [ip EXCEPT ![c] = FirstFreeIp]
    /\ occupied_ips' = occupied_ips \cup {FirstFreeIp}
    /\ pc' = [pc EXCEPT ![c] = "exec"]
    /\ UNCHANGED <<available_ips, cache_mode, cache_data, wait_timeout, code,
                   cached_response, wrote_task, issued_cmd, artifact, result,
                   lingering, returned_completed, prior>>

\* acquire_ip finds no free host and its (truthy) wait_timeout has elapsed:
\* it returns None and execute_evaluation_auto builds the "no ip" failure
AcquireIpTimeout(c) ==
    /\ pc[c] \in {"acquire", "sleep_acquire"}
    /\ FreeIps = {}
    /\ wait_timeout = "pos"
    /\ result' = [result EXCEPT ![c] = NoIpResult]
    /\ pc' = [pc EXCEPT ![c] = "noip"]
    /\ UNCHANGED <<available_ips, occupied_ips, cache_mode, cache_data,
                   wait_timeout, ip, code, cached_response, wrote_task,
                   issued_cmd, artifact, lingering, returned_completed, prior>>

\* a pass of the loop of acquire_ip found no host free and its timeout test
\* did not succeed: time.sleep(0.1) before the next pass
AcquireSleep(c) ==
    /\ pc[c] = "acquire"
    /\ FreeIps = {}
    /\ pc' = [pc EXCEPT ![c] = "sleep_acquire"]
    /\ UNCHANGED <<available_ips, occupied_ips, cache_mode, cache_data,
                   wait_timeout, ip, code, cached_response, wrote_task,
                   issued_cmd, artifact, result, lingering, returned_completed,
                   prior>>

(***************************************************************************)
(* execute_evaluation(ip, code, timeout_sec)                               *)
(***************************************************************************)
CacheHit(c) == cache_mode = "ok" /\ GetCachedResponse(code[c]) # NoEntry

\* the cache lookup: a hit returns the loaded response, a miss goes on to
\* submit the task; an evaluation_config that cannot be dumped raises
ExecLookup(c) ==
    /\ pc[c] = "exec"
    /\ prior' = [prior EXCEPT ![c] = returned_completed[code[c]]]
    /\ IF cache_mode = "unserializable"
       THEN /\ result' = [result EXCEPT ![c] = Raised]
            /\ pc' = [pc EXCEPT ![c] = "release"]
            /\ UNCHANGED cached_response
       ELSE IF CacheHit(c)
       THEN /\ cached_response' =
                   [cached_response EXCEPT ![c] = GetCachedResponse(code[c])]
            /\ result' = [result EXCEPT ![c] = JsonLoads(GetCachedResponse(code[c]))]
            /\ pc' = [pc EXCEPT ![c] = "release"]
       ELSE /\ pc' = [pc EXCEPT ![c] = "launch"]
            /\ UNCHANGED <<cached_response, result>>
    /\ UNCHANGED <<available_ips, occupied_ips, cache_mode, cache_data,
                   wait_timeout, ip, code, wrote_task, issued_cmd, artifact,
                   lingering, returned_completed>>

\* a failure result of the submit path is stored in the cache when there is one
CacheFailure(r, c) ==
    IF cache_mode = "ok" THEN CacheResponse(JsonDumps(r), code[c]) ELSE cache_data

\* exit codes of the launch command on the host
ExitCodes == {0, 1, 127}

\* faulty variant: the exit code of the launch command is not looked at
AfterLaunch_AlwaysPoll(exit_code) == "poll"

\* where execute_evaluation goes after start_tmux_session returned: a non-zero
\* exit code ends the evaluation, exit code 0 leads to wait_for_result
AfterLaunch(exit_code) == IF exit_code # 0 THEN "release" ELSE "poll"

\* the code file is written and the tmux session starts with exit code 0
LaunchOk(c) ==
    /\ pc[c] = "launch"
    /\ wrote_task' = [wrote_task EXCEPT ![c] = TRUE]
    /\ issued_cmd' = [issued_cmd EXCEPT ![c] = TRUE]
    /\ artifact' = [artifact EXCEPT ![c] = Absent]
    /\ pc' = [pc EXCEPT ![c] = AfterLaunch(0)]
    /\ UNCHANGED <<available_ips, occupied_ips, cache_mode, cache_data,
                   wait_timeout, ip, code, cached_response, result, lingering,
                   returned_completed, prior>>

\* the tmux command returns a non-zero exit code: failure result, no polling
LaunchExitNonZero(c) ==
    /\ pc[c] = "launch"
    /\ wrote_task' = [wrote_task EXCEPT ![c] = TRUE]
    /\ issued_cmd' = [issued_cmd EXCEPT ![c] = TRUE]
    /\ \E exit_code \in ExitCodes \ {0} :
          pc' = [pc EXCEPT ![c] = AfterLaunch(exit_code)]
    /\ result' = [result EXCEPT ![c] = LaunchFailure(ip[c])]
    /\ cache_data' = CacheFailure(LaunchFailure(ip[c]), c)
    /\ UNCHANGED <<available_ips, occupied_ips, cache_mode, wait_timeout, ip,
                   code, cached_response, artifact, lingering,
                   returned_completed, prior>>

\* writing the code file (cmd = FALSE) or execute_command (cmd = TRUE) raises
LaunchException(c) ==
    /\ pc[c] = "launch"
    /\ \E cmd \in BOOLEAN :
          /\ wrote_task' = [wrote_task EXCEPT ![c] = cmd]
          /\ issued_cmd' = [issued_cmd EXCEPT ![c] = cmd]
    /\ result' = [result EXCEPT ![c] = SubmitException(ip[c])]
    /\ cache_data' = CacheFailure(SubmitException(ip[c]), c)
    /\ pc' = [pc EXCEPT ![c] = "release"]
    /\ UNCHANGED <<available_ips, occupied_ips, cache_mode, wait_timeout, ip,
                   code, cached_response, artifact, lingering,
                   returned_completed, prior>>

\* evaluator_worker.main on the host writes the result artifact
WorkerWrites(c) ==
    /\ pc[c] = "poll"
    /\ artifact[c] = Absent
    /\ \E out \in WorkerOutputs : artifact' = [artifact EXCEPT ![c] = out]
    /\ UNCHANGED <<available_ips, occupied_ips, cache_mode, cache_data,
                   wait_timeout, pc, ip, code, cached_response, wrote_task,
                   issued_cmd, result, lingering, returned_completed, prior>>

\* eval_result of a finished wait_for_result with the ip added
WithIp(r, host) == [r EXCEPT !.ip = host]

\* a completed eval_result is stored in the cache when there is one
CacheCompleted(r, c) ==
    IF cache_mode = "ok" /\ r.completed = "yes"
    THEN CacheResponse(JsonDumps(r), code[c])
    ELSE cache_data

\* wait_for_result finds the result artifact before the timeout
PollCompleted(c) ==
    /\ pc[c] = "poll"
    /\ artifact[c] # Absent
    /\ LET r == WithIp(CheckEvaluationResult(artifact[c]), ip[c])
       IN /\ result' = [result EXCEPT ![c] = r]
          /\ cache_data' = CacheCompleted(r, c)
    /\ pc' = [pc EXCEPT ![c] = "release"]
    /\ UNCHANGED <<available_ips, occupied_ips, cache_mode, wait_timeout, ip,
                   code, cached_response, wrote_task, issued_cmd, artifact,
                   lingering, returned_completed, prior>>

\* what wait_for_result does to the job on the host when the timeout elapses
\* (nothing: the job is left running)
JobsAfterTimeout(c) ==
    IF artifact[c] \in {Absent, Malformed}
    THEN [lingering EXCEPT ![ip[c]] = @ + 1]
    ELSE lingering

\* wait_for_result sees elapsed >= timeout_sec before it sees the artifact
PollTimeout(c) ==
    /\ pc[c] = "poll"
    /\ LET r == WithIp(TimeoutResult, ip[c])
       IN /\ result' = [result EXCEPT ![c] = r]
          /\ cache_data' = CacheCompleted(r, c)
    /\ lingering' = JobsAfterTimeout(c)
    /\ pc' = [pc EXCEPT ![c] = "release"]
    /\ UNCHANGED <<available_ips, occupied_ips, cache_mode, wait_timeout, ip,
                   code, cached_response, wrote_task, issued_cmd, artifact,
                   returned_completed, prior>>

\* a job whose evaluation timed out writes its result artifact at last
LingeringJobEnds(h) ==
    /\ lingering[h] > 0
    /\ lingering' = [lingering EXCEPT ![h] = @ - 1]
    /\ UNCHANGED <<available_ips, occupied_ips, cache_mode, cache_data,
                   wait_timeout, pc, ip, code, cached_response, wrote_task,
                   issued_cmd, artifact, result, returned_completed, prior>>

\* the locals of a call that has no frame
NoFrame(f, c, v) == [f EXCEPT ![c] = v]

(***************************************************************************)
(* execute_evaluation_auto, second half: the finally block releases the ip *)
(* and the call ends, returning result or raising.  keep says whether the  *)
(* value stays with the caller (the controller's gather) or is dropped.    *)
(***************************************************************************)
\* faulty variant: no finally block, an exception skips the release
ReleasedIps_NoFinally(c) ==
    IF result[c] = Raised THEN occupied_ips ELSE occupied_ips \ {ip[c]}

\* faulty variant: the release clears the whole occupancy set
ReleasedIps_Clear(c) == {}

ReleasedIps(c) == occupied_ips \ {ip[c]}

ReleaseIp(c, keep) ==
    /\ pc[c] = "release"
    /\ occupied_ips' = ReleasedIps(c)
    /\ returned_completed' =
          IF result[c].kind = "dict" /\ "completed" \in DOMAIN result[c]
             /\ result[c].completed = "yes"
          THEN [returned_completed EXCEPT ![code[c]] = result[c]]
          ELSE returned_completed
    /\ pc' = [pc EXCEPT ![c] = "done"]
    /\ IF keep
       THEN UNCHANGED <<ip, code, cached_response, wrote_task, issued_cmd,
                        artifact, result, prior>>
       ELSE /\ ip' = NoFrame(ip, c, NoIp)
            /\ code' = NoFrame(code, c, NoCode)
            /\ cached_response' = NoFrame(cached_response, c, NoEntry)
            /\ wrote_task' = NoFrame(wrote_task, c, FALSE)
            /\ issued_cmd' = NoFrame(issued_cmd, c, FALSE)
            /\ artifact' = NoFrame(artifact, c, Absent)
            /\ result' = NoFrame(result, c, NoResult)
            /\ prior' = NoFrame(prior, c, NoResult)
    /\ UNCHANGED <<available_ips, cache_mode, cache_data, wait_timeout, lingering>>

\* execute_evaluation_auto returns the "no ip" failure: no finally block runs
ReturnNoIp(c, keep) ==
    /\ pc[c] = "noip"
    /\ pc' = [pc EXCEPT ![c] = "done"]
    /\ IF keep
       THEN UNCHANGED <<code, result>>
       ELSE /\ code' = NoFrame(code, c, NoCode)
            /\ result' = NoFrame(result, c, NoResult)
    /\ UNCHANGED <<available_ips, occupied_ips, cache_mode, cache_data,
                   wait_timeout, ip, cached_response, wrote_task, issued_cmd,
                   artifact, lingering, returned_completed, prior>>

(***************************************************************************)
(* execute_evaluation as one step, for the specifications that are about   *)
(* its callers: the value it returns and what it leaves in the cache.      *)
(***************************************************************************)
\* results of an execute_evaluation that found nothing in the cache
FreshResults(host) ==
    { LaunchFailure(host), SubmitException(host), WithIp(TimeoutResult, host) }
    \cup { WithIp(CheckEvaluationResult(out), host) : out \in WorkerOutputs }

\* faulty variant: no result is stored
StoreResult_Never(r, c) == cache_data

\* every return path stores its result except the timeout of wait_for_result
StoreResult(r, c) ==
    IF cache_mode = "ok" /\ r.completed # "no"
    THEN CacheResponse(JsonDumps(r), code[c])
    ELSE cache_data

\* what stays of the returned value with the caller: the keys the controller
\* reads (success, result, error), or only the fact that a value was returned
Kept(r, keep) ==
    IF keep
    THEN [kind |-> "dict", success |-> r.success, result |-> r.result,
          error |-> r.error]
    ELSE [kind |-> "dropped"]

\* execute_evaluation after a cache miss, as one step: the task is submitted
\* and the call has its result, stored on every path but the timeout
ExecSubmit(c) ==
    /\ pc[c] = "launch"
    /\ \E r \in FreshResults(ip[c]) :
          /\ result' = [result EXCEPT ![c] = r]
          /\ cache_data' = StoreResult(r, c)
          /\ \E cmd \in BOOLEAN :
                /\ r # SubmitException(ip[c]) => cmd
                /\ wrote_task' = [wrote_task EXCEPT ![c] = cmd]
                /\ issued_cmd' = [issued_cmd EXCEPT ![c] = cmd]
    /\ pc' = [pc EXCEPT ![c] = "release"]
    /\ UNCHANGED <<available_ips, occupied_ips, cache_mode, wait_timeout, ip,
                   code, cached_response, artifact, lingering,
                   returned_completed, prior>>

ExecuteEvaluation(c, keep) ==
    /\ pc[c] = "exec"
    /\ IF cache_mode = "unserializable"
       THEN /\ result' = [result EXCEPT ![c] = Raised]
            /\ UNCHANGED cache_data
       ELSE IF CacheHit(c)
       THEN /\ result' = [result EXCEPT ![c] =
                              Kept(JsonLoads(GetCachedResponse(code[c])), keep)]
            /\ UNCHANGED cache_data
       ELSE \E r \in FreshResults(ip[c]) :
               /\ result' = [result EXCEPT ![c] = Kept(r, keep)]
               /\ cache_data' = StoreResult(r, c)
    /\ pc' = [pc EXCEPT ![c] = "release"]
    /\ UNCHANGED <<available_ips, occupied_ips, cache_mode, wait_timeout, ip,
                   code, cached_response, wrote_task, issued_cmd, artifact,
                   lingering, returned_completed, prior>>

(***************************************************************************)
(* Initial state of a provisioned manager: available_ips lists the hosts   *)
(* that connected, nothing is occupied, the cache is empty.                *)
(***************************************************************************)
ManagerInit ==
    /\ \E k \in 1..MaxHosts : available_ips = [i \in 1..k |-> i]
    /\ occupied_ips = {}
    /\ cache_data = [k \in CacheKeys |-> NoEntry]
    /\ pc = [c \in Calls |-> "idle"]
    /\ ip = [c \in Calls |-> NoIp]
    /\ code = [c \in Calls |-> NoCode]
    /\ cached_response = [c \in Calls |-> NoEntry]
    /\ wrote_task = [c \in Calls |-> FALSE]
    /\ issued_cmd = [c \in Calls |-> FALSE]
    /\ artifact = [c \in Calls |-> Absent]
    /\ result = [c \in Calls |-> NoResult]
    /\ lingering = [h \in Hosts |-> 0]
    /\ returned_completed = [p \in Codes |-> NoResult]
    /\ prior = [c \in Calls |-> NoResult]

\* no controller: the manager is driven by a batch of direct calls
NoEngine ==
    /\ eng_pc = "none"
    /\ eng_error = "none"
    /\ max_iterations = 0
    /\ pool_size = 0
    /\ generation = 0
    /\ program_list = <<>>
    /\ parent_ids_list = <<>>
    /\ fold_i = 0
    /\ programs = <<>>
    /\ snapshot = <<>>
    /\ gen_log = <<>>
    /\ save_log = <<>>

\* no wait_for_result loop is followed step by step
NoWait ==
    /\ timeout_sec = 0
    /\ clock = 0
    /\ elapsed = 0

\* no add_program and no sample_parent_inspiration_pairs is followed
NoSampling ==
    /\ add_arg = NoMetrics
    /\ add_outcome = "none"
    /\ sample_pc = "idle"
    /\ n_arg = 0
    /\ pool_arg = 0
    /\ pool = <<>>
    /\ remaining = <<>>
    /\ fronts = <<>>
    /\ steps = 0
    /\ empty_front = FALSE
    /\ pairs = <<>>

\* the storage directory is not followed
NoStore ==
    /\ files = <<>>
    /\ now = 0
    /\ save_pc = "idle"
    /\ save_name = <<>>
    /\ save_data = <<>>
    /\ lib_state = "live"
    /\ store_op = "none"

\* the transport scope is not followed
NoTransport ==
    /\ ssh_pc = "out"
    /\ private_key = "unread"
    /\ connections = <<>>
    /\ failed_connections = <<>>
    /\ ssh_i = 0
    /\ open_clients = {}
    /\ exec_results = <<>>
    /\ block_raised = FALSE
    /\ leaving = "none"
    /\ install_code = -1

\* no _generate call is followed
NoLlm ==
    /\ llm_backend = "none"
    /\ llm_retries = 0
    /\ llm_pc = "idle"
    /\ llm_attempt = 0
    /\ llm_failed = 0
    /\ llm_sleeps = 0

\* no gen_program call is followed
NoGen ==
    /\ gen_pc = "idle"
    /\ original_code = <<>>
    /\ program_code = <<>>

\* no evaluation worker is followed
NoWorker ==
    /\ worker_pc = "idle"
    /\ evaluated = [kind |-> "no"]
    /\ worker_result = NoResult
    /\ output_file = Absent
    /\ writes = 0

NoExt == NoLlm /\ NoGen /\ NoWorker

\* the tmux sessions on the hosts are not followed
NoSessions ==
    /\ task_id = [c \in Calls |-> 0]
    /\ next_task = 0
    /\ sessions = [h \in Hosts |-> {}]
    /\ killed = {}
    /\ connected = TRUE

\* a thread calls execute_evaluation_auto(p, timeout_sec, wait_timeout); the
\* calls of a batch are numbered in the order they start
StartCall(c, p) ==
    /\ pc[c] = "idle"
    /\ \A d \in 1..(c - 1) : pc[d] # "idle"
    /\ pc' = [pc EXCEPT ![c] = "acquire"]
    /\ code' = [code EXCEPT ![c] = p]
    /\ UNCHANGED <<available_ips, occupied_ips, cache_mode, cache_data,
                   wait_timeout, ip, cached_response, wrote_task, issued_cmd,
                   artifact, result, lingering, returned_completed, prior>>

(***************************************************************************)
(* PoolSpec: up to MaxCalls threads call execute_evaluation_auto on one    *)
(* manager at the same time, as the controller's executor does (main.py    *)
(* 110-121) and test/test_client.py.  Of the value a call returns only the    *)
(* fact that it returned is kept.                                          *)
(***************************************************************************)
PoolInit ==
    /\ ManagerInit
    /\ cache_mode \in {"none", "unserializable"}
    /\ wait_timeout \in {"none", "zero", "pos"}
    /\ NoEngine
    /\ NoWait
    /\ NoSessions
    /\ NoSampling
    /\ NoStore
    /\ NoTransport
    /\ NoExt

PoolStart(c) == StartCall(c, "p") /\ UNCHANGED <<engvars, auxvars>>
PoolAcquire(c) == AcquireIp(c) /\ UNCHANGED <<engvars, auxvars>>
PoolAcquireTimeout(c) == AcquireIpTimeout(c) /\ UNCHANGED <<engvars, auxvars>>
PoolExecute(c) == ExecuteEvaluation(c, FALSE) /\ UNCHANGED <<engvars, auxvars>>
PoolRelease(c) == ReleaseIp(c, FALSE) /\ UNCHANGED <<engvars, auxvars>>
PoolReturnNoIp(c) == ReturnNoIp(c, FALSE) /\ UNCHANGED <<engvars, auxvars>>

PoolNext ==
    \/ \E c \in Calls : PoolStart(c)
    \/ \E c \in Calls : PoolAcquire(c)
    \/ \E c \in Calls : PoolAcquireTimeout(c)
    \/ \E c \in Calls : PoolExecute(c)
    \/ \E c \in Calls : PoolRelease(c)
    \/ \E c \in Calls : PoolReturnNoIp(c)

PoolSpec == PoolInit /\ [][PoolNext]_vars

\* AcquireSpec: PoolSpec with the passes of the loop of acquire_ip told
\* apart: a call that found no host free in a pass sleeps before the next
PoolAcquireSleep(c) == AcquireSleep(c) /\ UNCHANGED <<engvars, auxvars>>

AcquireNext ==
    \/ PoolNext
    \/ \E c \in Calls : PoolAcquireSleep(c)

AcquireSpec == PoolInit /\ [][AcquireNext]_vars

(***************************************************************************)
(* EvalSpec: up to MaxEvals calls of execute_evaluation_auto with a cache, *)
(* every step of execute_evaluation taken apart: cache lookup, launch of   *)
(* the tmux job, the worker writing its result artifact, polling, timeout. *)
(***************************************************************************)
EvalInit ==
    /\ ManagerInit
    /\ cache_mode \in {"none", "ok", "unserializable"}
    /\ wait_timeout = "none"
    /\ NoEngine
    /\ NoWait
    /\ NoSessions
    /\ NoSampling
    /\ NoStore
    /\ NoTransport
    /\ NoExt

EvalStart(c) == (\E p \in Codes : StartCall(c, p)) /\ UNCHANGED <<engvars, auxvars>>
EvalAcquire(c) == AcquireIp(c) /\ UNCHANGED <<engvars, auxvars>>
EvalLookup(c) == ExecLookup(c) /\ UNCHANGED <<engvars, auxvars>>
EvalLaunchOk(c) == LaunchOk(c) /\ UNCHANGED <<engvars, auxvars>>
EvalLaunchExitNonZero(c) == LaunchExitNonZero(c) /\ UNCHANGED <<engvars, auxvars>>
EvalLaunchException(c) == LaunchException(c) /\ UNCHANGED <<engvars, auxvars>>
EvalWorkerWrites(c) == WorkerWrites(c) /\ UNCHANGED <<engvars, auxvars>>
EvalPollCompleted(c) == PollCompleted(c) /\ UNCHANGED <<engvars, auxvars>>
EvalPollTimeout(c) == PollTimeout(c) /\ UNCHANGED <<engvars, auxvars>>
EvalRelease(c) == ReleaseIp(c, FALSE) /\ UNCHANGED <<engvars, auxvars>>
EvalJobEnds(h) == LingeringJobEnds(h) /\ UNCHANGED <<engvars, auxvars>>

EvalCalls == 1..MaxEvals

EvalNext ==
    \/ \E c \in EvalCalls : EvalStart(c)
    \/ \E c \in EvalCalls : EvalAcquire(c)
    \/ \E c \in EvalCalls : EvalLookup(c)
    \/ \E c \in EvalCalls : EvalLaunchOk(c)
    \/ \E c \in EvalCalls : EvalLaunchExitNonZero(c)
    \/ \E c \in EvalCalls : EvalLaunchException(c)
    \/ \E c \in EvalCalls : EvalWorkerWrites(c)
    \/ \E c \in EvalCalls : EvalPollCompleted(c)
    \/ \E c \in EvalCalls : EvalPollTimeout(c)
    \/ \E c \in EvalCalls : EvalRelease(c)
    \/ \E h \in Hosts : EvalJobEnds(h)

EvalSpec == EvalInit /\ [][EvalNext]_vars

(***************************************************************************)
(* CacheSpec: up to MaxRepeats calls of execute_evaluation_auto for the    *)
(* same code on a manager with a cache; a call is the cache lookup and,    *)
(* after a miss, the rest of execute_evaluation.                           *)
(***************************************************************************)
CacheInit ==
    /\ ManagerInit
    /\ cache_mode = "ok"
    /\ wait_timeout = "none"
    /\ NoEngine
    /\ NoWait
    /\ NoSessions
    /\ NoSampling
    /\ NoStore
    /\ NoTransport
    /\ NoExt

CacheStart(c) == StartCall(c, "p") /\ UNCHANGED <<engvars, auxvars>>
CacheAcquire(c) == AcquireIp(c) /\ UNCHANGED <<engvars, auxvars>>
CacheLookup(c) == ExecLookup(c) /\ UNCHANGED <<engvars, auxvars>>
CacheSubmit(c) == ExecSubmit(c) /\ UNCHANGED <<engvars, auxvars>>
CacheRelease(c) == ReleaseIp(c, FALSE) /\ UNCHANGED <<engvars, auxvars>>

CacheCalls == 1..MaxRepeats

CacheNext ==
    \/ \E c \in CacheCalls : CacheStart(c)
    \/ \E c \in CacheCalls : CacheAcquire(c)
    \/ \E c \in CacheCalls : CacheLookup(c)
    \/ \E c \in CacheCalls : CacheSubmit(c)
    \/ \E c \in CacheCalls : CacheRelease(c)

CacheSpec == CacheInit /\ [][CacheNext]_vars

(***************************************************************************)
(* WaitSpec: one call whose wait_for_result loop (client.py 195-228) is    *)
(* followed iteration by iteration: the elapsed time is computed, compared *)
(* with timeout_sec, the artifact is checked, the loop sleeps.  Time is    *)
(* counted in seconds; a sleep of poll_interval takes poll_interval plus a *)
(* delay of up to MaxDelay.                                                *)
(***************************************************************************)
\* faulty variant: a timeout is reported with the measured elapsed time
TimedOutResult_Elapsed(t) ==
    [kind |-> "dict", completed |-> "no", success |-> FALSE,
     result |-> NoMetrics, error |-> "timeout", ip |-> NoIp, seconds |-> clock]

\* the dictionary wait_for_result returns on timeout; seconds is the number
\* the error text is formatted with
TimedOutResult(t) ==
    [kind |-> "dict", completed |-> "no", success |-> FALSE,
     result |-> NoMetrics, error |-> "timeout", ip |-> NoIp, seconds |-> t]

\* the test of the loop: elapsed >= timeout_sec
TimedOutTest(e, t) == e >= t

\* wait_for_result computes elapsed and returns the timeout dictionary
WaitTimedOut(c) ==
    /\ pc[c] = "poll"
    /\ TimedOutTest(clock, timeout_sec)
    /\ elapsed' = clock
    /\ result' = [result EXCEPT ![c] = WithIp(TimedOutResult(timeout_sec), ip[c])]
    /\ lingering' = JobsAfterTimeout(c)
    /\ pc' = [pc EXCEPT ![c] = "release"]
    /\ UNCHANGED <<available_ips, occupied_ips, cache_mode, cache_data,
                   wait_timeout, ip, code, cached_response, wrote_task,
                   issued_cmd, artifact, returned_completed, prior>>
    /\ UNCHANGED <<timeout_sec, clock>>

\* wait_for_result computes elapsed, is within the timeout and checks the
\* artifact: a completed result is returned, otherwise the loop sleeps
WaitCheck(c) ==
    /\ pc[c] = "poll"
    /\ ~TimedOutTest(clock, timeout_sec)
    /\ elapsed' = clock
    /\ LET r == WithIp(CheckEvaluationResult(artifact[c]), ip[c])
       IN IF r.completed = "yes"
          THEN /\ result' = [result EXCEPT ![c] = r]
               /\ cache_data' = CacheCompleted(r, c)
               /\ pc' = [pc EXCEPT ![c] = "release"]
          ELSE /\ pc' = [pc EXCEPT ![c] = "sleep"]
               /\ UNCHANGED <<result, cache_data>>
    /\ UNCHANGED <<available_ips, occupied_ips, cache_mode, wait_timeout, ip,
                   code, cached_response, wrote_task, issued_cmd, artifact,
                   lingering, returned_completed, prior>>
    /\ UNCHANGED <<timeout_sec, clock>>

\* time.sleep(poll_interval)
WaitSleep(c) ==
    /\ pc[c] = "sleep"
    /\ \E delay \in 0..MaxDelay : clock' = clock + PollInterval + delay
    /\ pc' = [pc EXCEPT ![c] = "poll"]
    /\ UNCHANGED <<available_ips, occupied_ips, cache_mode, cache_data,
                   wait_timeout, ip, code, cached_response, wrote_task,
                   issued_cmd, artifact, result, lingering, returned_completed,
                   prior>>
    /\ UNCHANGED <<timeout_sec, elapsed>>

\* the worker on the host has written a part of the result artifact
WorkerWritesPart(c) ==
    /\ pc[c] \in {"poll", "sleep"}
    /\ artifact[c] = Absent
    /\ artifact' = [artifact EXCEPT ![c] = Malformed]
    /\ UNCHANGED <<available_ips, occupied_ips, cache_mode, cache_data,
                   wait_timeout, pc, ip, code, cached_response, wrote_task,
                   issued_cmd, result, lingering, returned_completed, prior>>
    /\ UNCHANGED waitvars

\* the worker on the host has written the whole result artifact
WorkerWritesRest(c) ==
    /\ pc[c] \in {"poll", "sleep"}
    /\ artifact[c] = Malformed
    /\ \E out \in WorkerOutputs : artifact' = [artifact EXCEPT ![c] = out]
    /\ UNCHANGED <<available_ips, occupied_ips, cache_mode, cache_data,
                   wait_timeout, pc, ip, code, cached_response, wrote_task,
                   issued_cmd, result, lingering, returned_completed, prior>>
    /\ UNCHANGED waitvars

WaitInit ==
    /\ ManagerInit
    /\ cache_mode \in {"none", "ok"}
    /\ wait_timeout = "none"
    /\ NoEngine
    /\ timeout_sec \in 0..MaxTimeout
    /\ clock = 0
    /\ elapsed = 0
    /\ NoSessions
    /\ NoSampling
    /\ NoStore
    /\ NoTransport
    /\ NoExt

WaitStart(c) == StartCall(c, "p") /\ UNCHANGED <<engvars, auxvars>>
WaitAcquire(c) == AcquireIp(c) /\ UNCHANGED <<engvars, auxvars>>
WaitLookup(c) == ExecLookup(c) /\ UNCHANGED <<engvars, auxvars>>
WaitLaunchOk(c) == LaunchOk(c) /\ UNCHANGED <<engvars, auxvars>>
WaitLoopTimedOut(c) == WaitTimedOut(c) /\ UNCHANGED <<engvars, jobvars, libvars,
                 storevars, sshvars, extvars>>
WaitLoopCheck(c) == WaitCheck(c) /\ UNCHANGED <<engvars, jobvars, libvars,
                 storevars, sshvars, extvars>>
WaitLoopSleep(c) == WaitSleep(c) /\ UNCHANGED <<engvars, jobvars, libvars,
                 storevars, sshvars, extvars>>
WaitWorkerPart(c) == WorkerWritesPart(c) /\ UNCHANGED <<engvars, jobvars, libvars,
                 storevars, sshvars, extvars>>
WaitWorkerRest(c) == WorkerWritesRest(c) /\ UNCHANGED <<engvars, jobvars, libvars,
                 storevars, sshvars, extvars>>
WaitRelease(c) == ReleaseIp(c, TRUE) /\ UNCHANGED <<engvars, auxvars>>

WaitCalls == {1}

WaitNext ==
    \/ \E c \in WaitCalls : WaitStart(c)
    \/ \E c \in WaitCalls : WaitAcquire(c)
    \/ \E c \in WaitCalls : WaitLookup(c)
    \/ \E c \in WaitCalls : WaitLaunchOk(c)
    \/ \E c \in WaitCalls : WaitLoopTimedOut(c)
    \/ \E c \in WaitCalls : WaitLoopCheck(c)
    \/ \E c \in WaitCalls : WaitLoopSleep(c)
    \/ \E c \in WaitCalls : WaitWorkerPart(c)
    \/ \E c \in WaitCalls : WaitWorkerRest(c)
    \/ \E c \in WaitCalls : WaitRelease(c)

WaitSpec == WaitInit /\ [][WaitNext]_vars

\* the thread that runs wait_for_result is scheduled again and again: a
\* step of its loop that stays possible is taken.  Nothing makes the worker
\* on the host write its artifact.
WaitFairSpec ==
    /\ WaitSpec
    /\ \A c \in WaitCalls :
          WF_vars(WaitLoopTimedOut(c) \/ WaitLoopCheck(c) \/ WaitLoopSleep(c))

(***************************************************************************)
(* JobSpec: the tmux sessions of the evaluation jobs.  Every command the   *)
(* manager sends to a host is followed: the launch command of              *)
(* start_tmux_session, which first ends a session of the same name and     *)
(* then creates the session, and the teardown of __exit__.  wait_for_result*)
(* reads the artifact from the shared directory and sends nothing.         *)
(***************************************************************************)
\* faulty variant: an evaluation uses the task id of the evaluation before it
NewTaskId_Same == IF next_task = 0 THEN 1 ELSE next_task

\* task_id = str(uuid.uuid4()): an id that no earlier task has
NewTaskId == next_task + 1

\* session_name = f"eval-{task_id}"
SessionName(t) == <<"eval", t>>

\* tmux kill-session -t name 2>/dev/null || true
KillSession(on_host, name) == on_host \ {name}

\* tmux new-session -d -s name '...'
NewSession(on_host, name) == on_host \cup {name}

\* the sessions of host h an evaluation is waiting for
AwaitedSessions(h) ==
    { SessionName(task_id[c]) : c \in { d \in Calls : pc[d] = "poll" /\ ip[d] = h } }

\* the launch command on the call's host: kill-session, then new-session,
\* which creates the session when created is true
SendLaunchCommand(c, created) ==
    LET t == NewTaskId
        h == ip[c]
        name == SessionName(t)
        after_kill == KillSession(sessions[h], name)
    IN /\ task_id' = [task_id EXCEPT ![c] = t]
       /\ next_task' = next_task + 1
       /\ killed' = killed \cup (sessions[h] \ after_kill)
       /\ sessions' = [sessions EXCEPT ![h] =
                          IF created THEN NewSession(after_kill, name) ELSE after_kill]
       /\ UNCHANGED connected

JobStart(c) ==
    /\ connected
    /\ StartCall(c, "p")
    /\ UNCHANGED <<engvars, auxvars>>

JobAcquire(c) == AcquireIp(c) /\ UNCHANGED <<engvars, auxvars>>
JobLookup(c) == ExecLookup(c) /\ UNCHANGED <<engvars, auxvars>>

JobLaunchOk(c) ==
    /\ LaunchOk(c)
    /\ SendLaunchCommand(c, TRUE)
    /\ UNCHANGED <<engvars, waitvars, libvars,
                 storevars, sshvars, extvars>>

JobLaunchExitNonZero(c) ==
    /\ LaunchExitNonZero(c)
    /\ SendLaunchCommand(c, FALSE)
    /\ UNCHANGED <<engvars, waitvars, libvars,
                 storevars, sshvars, extvars>>

\* the job writes its result artifact and its session ends
JobWorkerWrites(c) ==
    /\ WorkerWrites(c)
    /\ sessions' = [sessions EXCEPT ![ip[c]] = @ \ {SessionName(task_id[c])}]
    /\ UNCHANGED <<task_id, next_task, killed, connected>>
    /\ UNCHANGED <<engvars, waitvars, libvars,
                 storevars, sshvars, extvars>>

JobPollCompleted(c) == PollCompleted(c) /\ UNCHANGED <<engvars, auxvars>>

\* wait_for_result returns the timeout: nothing is sent to the host
JobPollTimeout(c) == PollTimeout(c) /\ UNCHANGED <<engvars, auxvars>>

JobRelease(c) == ReleaseIp(c, FALSE) /\ UNCHANGED <<engvars, auxvars>>

\* a job whose evaluation timed out ends on its own
JobEnds(h) ==
    /\ LingeringJobEnds(h)
    /\ \E name \in sessions[h] \ AwaitedSessions(h) :
          sessions' = [sessions EXCEPT ![h] = @ \ {name}]
    /\ UNCHANGED <<task_id, next_task, killed, connected>>
    /\ UNCHANGED <<engvars, waitvars, libvars,
                 storevars, sshvars, extvars>>

\* RemoteEvaluatorServerManager.__exit__ after the calls of the with-block
\* have returned: SSHConnectionManager.__exit__ closes every client
ManagerExit ==
    /\ connected
    /\ \A c \in Calls : pc[c] \in {"idle", "done"}
    /\ connected' = FALSE
    /\ UNCHANGED <<task_id, next_task, sessions, killed>>
    /\ UNCHANGED <<poolvars, engvars, waitvars, libvars,
                 storevars, sshvars, extvars>>

JobInit ==
    /\ ManagerInit
    /\ cache_mode = "none"
    /\ wait_timeout = "none"
    /\ NoEngine
    /\ NoWait
    /\ NoSessions
    /\ NoSampling
    /\ NoStore
    /\ NoTransport
    /\ NoExt

JobCalls == 1..MaxJobs

JobNext ==
    \/ \E c \in JobCalls : JobStart(c)
    \/ \E c \in JobCalls : JobAcquire(c)
    \/ \E c \in JobCalls : JobLookup(c)
    \/ \E c \in JobCalls : JobLaunchOk(c)
    \/ \E c \in JobCalls : JobLaunchExitNonZero(c)
    \/ \E c \in JobCalls : JobWorkerWrites(c)
    \/ \E c \in JobCalls : JobPollCompleted(c)
    \/ \E c \in JobCalls : JobPollTimeout(c)
    \/ \E c \in JobCalls : JobRelease(c)
    \/ \E h \in Hosts : JobEnds(h)
    \/ ManagerExit

JobSpec == JobInit /\ [][JobNext]_vars

(***************************************************************************)
(* Program repository (evolution/program_library.py).  A metric map is a   *)
(* function from metric names to values scaled by Scale; a combined score  *)
(* computed by the repository is the exact fraction <<num, den>>.          *)
(***************************************************************************)
RECURSIVE SumOver(_, _)
SumOver(f, keys) ==
    IF keys = {} THEN 0
    ELSE LET k == CHOOSE x \in keys : TRUE
         IN f[k] + SumOver(f, keys \ {k})

\* faulty variant: the mean of the other metrics, whatever runs_successfully is
CalcCombinedScore_Mean(metrics) ==
    IF "combined_score" \in DOMAIN metrics
    THEN <<metrics["combined_score"], Scale>>
    ELSE IF metrics["runs_successfully"] = 0
    THEN <<0, 1>>
    ELSE LET others == DOMAIN metrics \ {"runs_successfully"}
         IN <<SumOver(metrics, others), Cardinality(others) * Scale>>

\* Program.calc_combined_score: the score given in the map, 0 for a program
\* that does not run, else the mean of the other metrics times runs_successfully
CalcCombinedScore(metrics) ==
    IF "combined_score" \in DOMAIN metrics
    THEN <<metrics["combined_score"], Scale>>
    ELSE IF metrics["runs_successfully"] = 0
    THEN <<0, 1>>
    ELSE LET others == DOMAIN metrics \ {"runs_successfully"}
         IN <<SumOver(metrics, others) * metrics["runs_successfully"],
              Cardinality(others) * Scale * Scale>>

\* the metric maps calc_combined_score raises on: a value outside [0, 1], or
\* no metric but runs_successfully
CalcRaises(metrics) ==
    /\ "combined_score" \notin DOMAIN metrics
    /\ metrics["runs_successfully"] # 0
    /\ \/ \E k \in DOMAIN metrics : metrics[k] < 0 \/ metrics[k] > Scale
       \/ DOMAIN metrics = {"runs_successfully"}

\* faulty variant: update_metrics does not look for the runs_successfully
\* key, so that only calc_combined_score can raise
UpdateMetricsRaises_NoKeyCheck(metrics) ==
    /\ "combined_score" \notin DOMAIN metrics
    /\ \/ "runs_successfully" \notin DOMAIN metrics
       \/ CalcRaises(metrics)

\* Program.update_metrics raises
UpdateMetricsRaises(metrics) ==
    \/ "runs_successfully" \notin DOMAIN metrics
    \/ CalcRaises(metrics)

\* an empty dict, and the dicts given as metadata (sets of key-value pairs)
EmptyDict == {}

\* faulty variant: the id is the size, not the size plus one
NewProgram_IdIsSize(progs, content, metrics, parent_ids, creation_method) ==
    [id |-> IF progs = <<>> THEN 1 ELSE Len(progs),
     content |-> content,
     parent_ids |-> parent_ids,
     creation_method |-> creation_method,
     metrics |-> metrics,
     combined_score |-> CalcCombinedScore(metrics),
     metadata |-> EmptyDict]

\* ProgramLibrary.add_program: the new Program, its id the size plus one, its
\* metrics set by update_metrics, its metadata the default of the dataclass
NewProgram(progs, content, metrics, parent_ids, creation_method) ==
    [id |-> Len(progs) + 1,
     content |-> content,
     parent_ids |-> parent_ids,
     creation_method |-> creation_method,
     metrics |-> metrics,
     combined_score |-> CalcCombinedScore(metrics),
     metadata |-> EmptyDict]

\* if metadata: program.update_metadata(metadata)
UpdateMetadata(prog, metadata) ==
    IF metadata = EmptyDict THEN prog ELSE [prog EXCEPT !.metadata = metadata]

\* faulty variant: the new program takes the place of the one added last
AddToPrograms_OverLast(progs, prog) ==
    IF progs = <<>> THEN <<prog>>
    ELSE [i \in 1..Len(progs) |-> IF i = Len(progs) THEN prog ELSE progs[i]]

\* ProgramLibrary._add_program: self.programs[program.id] = program
AddToPrograms(progs, prog) ==
    IF \E i \in 1..Len(progs) : progs[i].id = prog.id
    THEN [i \in 1..Len(progs) |-> IF progs[i].id = prog.id THEN prog ELSE progs[i]]
    ELSE Append(progs, prog)

\* a.combined_score > b.combined_score, as fractions
ScoreGreater(a, b) ==
    a.combined_score[1] * b.combined_score[2] > b.combined_score[1] * a.combined_score[2]

\* sorted(programs_list, key = combined_score, reverse = True): the position of
\* progs[i] in the sorted list (the sort is stable)
SortedRank(progs, i) ==
    1 + Cardinality({ j \in 1..Len(progs) :
                        \/ ScoreGreater(progs[j], progs[i])
                        \/ (~ScoreGreater(progs[i], progs[j]) /\ j < i) })

SortedPrograms(progs) ==
    [r \in 1..Len(progs) |-> progs[CHOOSE i \in 1..Len(progs) : SortedRank(progs, i) = r]]

\* pool = sorted_programs[:min(program_pool_size, len(sorted_programs))]: a
\* slice, so a negative stop counts from the end of the list
ElitePool(progs, program_pool_size) ==
    LET len == Len(progs)
        k == IF program_pool_size < len THEN program_pool_size ELSE len
        stop == IF k >= 0 THEN k ELSE IF len + k > 0 THEN len + k ELSE 0
    IN SubSeq(SortedPrograms(progs), 1, stop)

\* the metrics but runs_successfully and combined_score
ObjectiveKeys(prog) == DOMAIN prog.metrics \ {"runs_successfully", "combined_score"}

\* the order in which the evaluators put their metrics into the map
MetricOrder == <<"bic_score", "reviewer_1_overall", "reviewer_2_overall">>

\* get_objectives: the values of those metrics, in the order of the map
GetObjectives(prog) ==
    LET names == SelectSeq(MetricOrder, LAMBDA k : k \in ObjectiveKeys(prog))
    IN [i \in 1..Len(names) |-> prog.metrics[names[i]]]

\* faulty variant: not being worse anywhere is enough to dominate
Dominates_NotStrict(a, b) ==
    LET objs_a == GetObjectives(a)
        objs_b == GetObjectives(b)
        zipped == 1..(IF Len(objs_a) < Len(objs_b) THEN Len(objs_a) ELSE Len(objs_b))
    IN /\ objs_a # <<>>
       /\ \A i \in zipped : objs_a[i] >= objs_b[i]

\* faulty variant: the comparison is the wrong way round
Dominates_Reversed(a, b) ==
    LET objs_a == GetObjectives(a)
        objs_b == GetObjectives(b)
        zipped == 1..(IF Len(objs_a) < Len(objs_b) THEN Len(objs_a) ELSE Len(objs_b))
    IN /\ objs_a # <<>>
       /\ \A i \in zipped : objs_a[i] <= objs_b[i]
       /\ \E i \in zipped : objs_a[i] < objs_b[i]

\* dominates(prog_a, prog_b): zip pairs the two lists position by position
\* and stops at the end of the shorter one
Dominates(a, b) ==
    LET objs_a == GetObjectives(a)
        objs_b == GetObjectives(b)
        zipped == 1..(IF Len(objs_a) < Len(objs_b) THEN Len(objs_a) ELSE Len(objs_b))
    IN /\ objs_a # <<>>
       /\ \A i \in zipped : objs_a[i] >= objs_b[i]
       /\ \E i \in zipped : objs_a[i] > objs_b[i]

\* faulty variant: every remaining program goes into the front
CurrentFront_All(rem) == rem

\* the members of remaining no other member dominates, in order
CurrentFront(rem) ==
    SelectSeq(rem,
              LAMBDA prog : ~\E i \in 1..Len(rem) :
                                /\ rem[i].id # prog.id
                                /\ Dominates(rem[i], prog))

\* remaining without the members of front
Without(rem, front) ==
    SelectSeq(rem,
              LAMBDA prog : ~\E i \in 1..Len(front) : front[i] = prog)

\* the while loop of the non-dominated sorting
RECURSIVE PeelFronts(_)
PeelFronts(rem) ==
    IF rem = <<>> THEN <<>>
    ELSE IF CurrentFront(rem) # <<>>
    THEN <<CurrentFront(rem)>>
         \o PeelFronts(Without(rem, CurrentFront(rem)))
    ELSE <<rem>>

\* the fronts after the single-small-front fallback (FallbackSize = 10)
FallbackSize == 10
Fronts(elite_pool) ==
    LET fs == PeelFronts(elite_pool)
    IN IF Len(fs) = 1 /\ Len(fs[1]) < 2
       THEN <<SubSeq(elite_pool, 1, IF Len(elite_pool) < FallbackSize THEN Len(elite_pool) ELSE FallbackSize)>>
       ELSE fs

RECURSIVE Flatten(_)
Flatten(fs) ==
    IF fs = <<>> THEN <<>> ELSE Head(fs) \o Flatten(Tail(fs))

\* faulty variant: the two programs are drawn with replacement
SampleTwo_WithReplacement(list) ==
    { <<list[q[1]], list[q[2]]>> : q \in (1..Len(list)) \X (1..Len(list)) }

\* the pairs random.sample(list, 2) can return: two different positions
SampleTwo(list) ==
    { <<list[q[1]], list[q[2]]>> :
         q \in { x \in (1..Len(list)) \X (1..Len(list)) : x[1] # x[2] } }

\* the same-front branch: two members of a randomly chosen front, or of all
\* fronts together when the chosen front holds one program
SameFrontChoices(fs) ==
    UNION { IF Len(fs[f]) >= 2
            THEN SampleTwo(fs[f])
            ELSE SampleTwo(Flatten(fs)) : f \in 1..Len(fs) }

\* faulty variant: the parent is drawn from the non-elite half and the
\* inspiration from the elite half
CrossFrontChoices_Swapped(fs) ==
    LET half == Len(fs) \div 2
        elite == Flatten(SubSeq(fs, 1, half))
        non_elite == Flatten(SubSeq(fs, half + 1, Len(fs)))
    IN { <<non_elite[j], elite[i]>> :
            i \in 1..Len(elite), j \in 1..Len(non_elite) }

\* the cross-front branch, taken only when there is more than one front: the
\* parent from fronts[:len // 2], the inspiration from fronts[len // 2:]
CrossFrontChoices(fs) ==
    LET half == Len(fs) \div 2
        elite == Flatten(SubSeq(fs, 1, half))
        non_elite == Flatten(SubSeq(fs, half + 1, Len(fs)))
    IN { <<elite[i], non_elite[j]>> :
            i \in 1..Len(elite), j \in 1..Len(non_elite) }

\* the (parent, inspiration) pairs one round of the pairing loop can append
PairChoices(fs) ==
    IF Len(fs) = 1 THEN SameFrontChoices(fs)
    ELSE SameFrontChoices(fs) \cup CrossFrontChoices(fs)

\* random.choice(fronts) raises when there is no front; random.sample(all_progs, 2)
\* raises when a front of one is chosen and the fronts hold fewer than two
\* programs together
PairingRaises(fs) ==
    \/ fs = <<>>
    \/ \E f \in 1..Len(fs) : Len(fs[f]) < 2 /\ Len(Flatten(fs)) < 2

\* sample_parent_inspiration_pairs raises
SamplingRaises(progs, n, program_pool_size) ==
    \/ Len(progs) < 2
    \/ n > 0 /\ PairingRaises(Fronts(ElitePool(progs, program_pool_size)))

(***************************************************************************)
(* Generation controller (evolution/main.py): run_evolution calls          *)
(* create_generation for generation 0, 1, ..., max_iterations.             *)
(***************************************************************************)
Slots == 1..pool_size

\* the program texts gen_program returns
GenPrograms == {"p"}

\* the executor runs execute_evaluation_auto(code, evaluation_timeout_sec) for
\* every program of program_list, each in a thread of its own
Dispatch(pl) ==
    /\ pc' = [c \in Calls |-> IF c \in Slots THEN "acquire" ELSE "idle"]
    /\ code' = [c \in Calls |-> IF c \in Slots THEN pl[c] ELSE NoCode]
    /\ ip' = [c \in Calls |-> NoIp]
    /\ result' = [c \in Calls |-> NoResult]
    /\ UNCHANGED <<available_ips, occupied_ips, cache_mode, cache_data,
                   wait_timeout, cached_response, wrote_task, issued_cmd,
                   artifact, lingering, returned_completed, prior>>
    /\ UNCHANGED auxvars

\* generation 0: pool_size programs from the initial prompt, no parents
GenerateInitial ==
    /\ eng_pc = "generate"
    /\ generation = 0
    /\ gen_log' = Append(gen_log, generation)
    /\ \E pl \in [Slots -> GenPrograms] :
          /\ program_list' = pl
          /\ Dispatch(pl)
    /\ parent_ids_list' = [i \in Slots |-> <<>>]
    /\ eng_pc' = "evaluate"
    /\ UNCHANGED <<eng_error, max_iterations, pool_size, generation, fold_i,
                   programs, snapshot, save_log>>

\* generation > 0: pool_size sampled pairs, one mutated program for each
GenerateMutation ==
    /\ eng_pc = "generate"
    /\ generation > 0
    /\ ~SamplingRaises(programs, pool_size, pool_size)
    /\ gen_log' = Append(gen_log, generation)
    /\ \E samples \in [Slots -> PairChoices(Fronts(ElitePool(programs, pool_size)))] :
          parent_ids_list' = [i \in Slots |-> <<samples[i][1].id, samples[i][2].id>>]
    /\ \E pl \in [Slots -> GenPrograms] :
          /\ program_list' = pl
          /\ Dispatch(pl)
    /\ eng_pc' = "evaluate"
    /\ UNCHANGED <<eng_error, max_iterations, pool_size, generation, fold_i,
                   programs, snapshot, save_log>>

\* sample_parent_inspiration_pairs raises: create_generation and
\* run_evolution end with the exception
GenerateSamplingRaises ==
    /\ eng_pc = "generate"
    /\ generation > 0
    /\ SamplingRaises(programs, pool_size, pool_size)
    /\ gen_log' = Append(gen_log, generation)
    /\ eng_pc' = "raised"
    /\ eng_error' = "sampling"
    /\ UNCHANGED <<max_iterations, pool_size, generation, program_list,
                   parent_ids_list, fold_i, programs, snapshot, save_log>>
    /\ UNCHANGED <<poolvars, auxvars>>

\* faulty variant: the gather collects the exception and the round goes on
AfterLlmFailure_GoesOn == "evaluate"

\* program_list = await asyncio.gather(*tasks), without return_exceptions:
\* the first exception of a gen_program is raised out of create_generation
AfterLlmFailure == "raised"

\* one of the gen_program calls ends with its terminal failure
GenerateLlmRaises ==
    /\ eng_pc = "generate"
    /\ generation > 0 => ~SamplingRaises(programs, pool_size, pool_size)
    /\ gen_log' = Append(gen_log, generation)
    /\ eng_pc' = AfterLlmFailure
    /\ eng_error' = "llm"
    /\ UNCHANGED <<max_iterations, pool_size, generation, program_list,
                   parent_ids_list, fold_i, programs, snapshot, save_log>>
    /\ UNCHANGED <<poolvars, auxvars>>

\* faulty variant: the controller does not wait for the evaluations
PendingSlots_None == {}

\* the evaluations the gather still waits for
PendingSlots == { c \in Slots : pc[c] # "done" }

\* await asyncio.gather(*tasks) and the executor's shutdown: every thread has
\* ended; an exception of one of them is raised out of create_generation
GatherResults ==
    /\ eng_pc = "evaluate"
    /\ PendingSlots = {}
    /\ IF \E c \in Slots : result[c] = Raised
       THEN eng_pc' = "raised" /\ eng_error' = "evaluation" /\ UNCHANGED fold_i
       ELSE eng_pc' = "fold" /\ fold_i' = 1 /\ UNCHANGED eng_error
    /\ UNCHANGED <<max_iterations, pool_size, generation, program_list,
                   parent_ids_list, programs, snapshot, gen_log, save_log>>
    /\ UNCHANGED <<poolvars, auxvars>>

\* faulty variant: only a result with runs_successfully > 0 is folded in
Accepted_OnlyViable(r) ==
    /\ r.kind = "dict" /\ r.success /\ r.result # NoMetrics
    /\ r.result["runs_successfully"] > 0

\* eval_result['success'] and eval_result['result']
Accepted(r) == r.kind = "dict" /\ r.success /\ r.result # NoMetrics

\* faulty variant: every generation is labelled as the first one
CreationMethod_AlwaysInitial(g) == IF g >= 0 THEN "initial" ELSE "mutation"

\* creation_method of create_generation: "initial" for generation 0 (the
\* seed programs), "mutation" afterwards
CreationMethod(g) == IF g = 0 THEN "initial" ELSE "mutation"

\* eval_result.get('metadata', {})
ResultMetadata(r) == IF "metadata" \in DOMAIN r THEN r.metadata ELSE EmptyDict

\* one round of the fold loop: add_program for an accepted result
FoldResult ==
    /\ eng_pc = "fold"
    /\ fold_i <= pool_size
    /\ LET r == result[fold_i]
       IN IF ~Accepted(r)
          THEN UNCHANGED <<programs, eng_pc, eng_error>> /\ fold_i' = fold_i + 1
          ELSE IF UpdateMetricsRaises(r.result)
          THEN /\ eng_pc' = "raised" /\ eng_error' = "add_program"
               /\ UNCHANGED <<programs, fold_i>>
          ELSE /\ programs' =
                     AddToPrograms(programs,
                        UpdateMetadata(
                           NewProgram(programs, program_list[fold_i], r.result,
                                      parent_ids_list[fold_i],
                                      CreationMethod(generation)),
                           ResultMetadata(r)))
               /\ fold_i' = fold_i + 1
               /\ UNCHANGED <<eng_pc, eng_error>>
    /\ UNCHANGED <<max_iterations, pool_size, generation, program_list,
                   parent_ids_list, snapshot, gen_log, save_log>>
    /\ UNCHANGED <<poolvars, auxvars>>

\* program_library.save(): a snapshot of every program
SaveLibrary ==
    /\ eng_pc = "fold"
    /\ fold_i > pool_size
    /\ snapshot' = programs
    /\ save_log' = Append(save_log, generation)
    /\ eng_pc' = "saved"
    /\ UNCHANGED <<eng_error, max_iterations, pool_size, generation, program_list,
                   parent_ids_list, fold_i, programs, gen_log>>
    /\ UNCHANGED <<poolvars, auxvars>>

\* faulty variant: the loop is range(1, max_iterations)
LastGeneration_OffByOne == max_iterations - 1

\* the last value of range(1, max_iterations + 1)
LastGeneration == max_iterations

\* the loop of run_evolution: the next generation, or return lib
NextGeneration ==
    /\ eng_pc = "saved"
    /\ IF generation < LastGeneration
       THEN generation' = generation + 1 /\ eng_pc' = "generate"
       ELSE eng_pc' = "returned" /\ UNCHANGED generation
    /\ UNCHANGED <<eng_error, max_iterations, pool_size, program_list, parent_ids_list,
                   fold_i, programs, snapshot, gen_log, save_log>>
    /\ UNCHANGED <<poolvars, auxvars>>

EngineInit ==
    /\ ManagerInit
    /\ cache_mode \in {"none", "unserializable"}
    /\ wait_timeout = "none"
    /\ eng_pc = "generate"
    /\ eng_error = "none"
    /\ max_iterations \in 0..MaxIterations
    /\ pool_size \in 1..MaxPool
    /\ generation = 0
    /\ program_list = <<>>
    /\ parent_ids_list = <<>>
    /\ fold_i = 0
    /\ programs = <<>>
    /\ snapshot = <<>>
    /\ gen_log = <<>>
    /\ save_log = <<>>
    /\ NoWait
    /\ NoSessions
    /\ NoSampling
    /\ NoStore
    /\ NoTransport
    /\ NoExt

EngineAcquire(c) == AcquireIp(c) /\ UNCHANGED <<engvars, auxvars>>
EngineExecute(c) == ExecuteEvaluation(c, TRUE) /\ UNCHANGED <<engvars, auxvars>>
EngineRelease(c) == ReleaseIp(c, TRUE) /\ UNCHANGED <<engvars, auxvars>>

EngineNext ==
    \/ GenerateInitial
    \/ GenerateMutation
    \/ GenerateSamplingRaises
    \/ GenerateLlmRaises
    \/ \E c \in Calls : EngineAcquire(c)
    \/ \E c \in Calls : EngineExecute(c)
    \/ \E c \in Calls : EngineRelease(c)
    \/ GatherResults
    \/ FoldResult
    \/ SaveLibrary
    \/ NextGeneration

EngineSpec == EngineInit /\ [][EngineNext]_vars

(***************************************************************************)
(* AddSpec: add_program called on a repository with every kind of metric   *)
(* map: with and without runs_successfully, with and without a supplied    *)
(* combined_score, with values inside and outside [0, 1].                  *)
(***************************************************************************)
MetricKeys ==
    {"runs_successfully", "reviewer_1_overall", "reviewer_2_overall", "combined_score"}

\* the values a metric takes in the maps handed to add_program
MetricValues(k) ==
    CASE k = "runs_successfully" -> {0, Scale \div 2, Scale, Scale + 1}
      [] k = "reviewer_1_overall" -> {-1, 0, Scale \div 2, Scale, Scale + 1}
      [] k = "reviewer_2_overall" -> {Scale \div 2}
      [] k = "combined_score" -> {0, Scale \div 2}

MetricInputs ==
    LET values == UNION { MetricValues(k) : k \in MetricKeys }
    IN { m \in UNION { [K -> values] : K \in SUBSET MetricKeys } :
            \A k \in DOMAIN m : m[k] \in MetricValues(k) }

\* add_program(content, metrics): update_metrics raises and nothing is stored,
\* or the new program is put into self.programs
AddProgram(m) ==
    /\ sample_pc = "idle"
    /\ add_arg' = m
    /\ IF UpdateMetricsRaises(m)
       THEN /\ add_outcome' = "rejected"
            /\ UNCHANGED programs
       ELSE /\ add_outcome' = "stored"
            /\ programs' = AddToPrograms(programs,
                              NewProgram(programs, "p", m, <<>>, "initial"))
    /\ UNCHANGED <<eng_pc, eng_error, max_iterations, pool_size, generation,
                   program_list, parent_ids_list, fold_i, snapshot, gen_log,
                   save_log>>
    /\ UNCHANGED <<sample_pc, n_arg, pool_arg, pool, remaining, fronts, steps,
                   empty_front, pairs>>
    /\ UNCHANGED <<poolvars, waitvars, jobvars,
                 storevars, sshvars, extvars>>

\* a repository of its own, no manager calls and no controller
LibraryInit ==
    /\ ManagerInit
    /\ available_ips = <<1>>
    /\ cache_mode = "none"
    /\ wait_timeout = "none"
    /\ NoEngine
    /\ NoWait
    /\ NoSessions
    /\ NoSampling
    /\ NoStore
    /\ NoTransport
    /\ NoExt

AddCall(m) == Len(programs) < MaxAdds /\ AddProgram(m)

AddNext == \E m \in MetricInputs : AddCall(m)

AddSpec == LibraryInit /\ [][AddNext]_vars

(***************************************************************************)
(* SampleSpec: a repository is filled by add_program and                   *)
(* sample_parent_inspiration_pairs(n, program_pool_size) is called on it;  *)
(* the while loop of the non-dominated sorting and the pairing loop are    *)
(* followed pass by pass.  The metric maps are those of three programs     *)
(* A, B and C with two objectives and a supplied combined_score, a map     *)
(* with one objective, and a map with no objective.                        *)
(***************************************************************************)
\* x / 100 as a metric value
Hundredths(x) == (x * Scale) \div 100

ScenarioMetrics(combined, objective_1, objective_2) ==
    [runs_successfully |-> Scale,
     reviewer_1_overall |-> Hundredths(objective_1),
     reviewer_2_overall |-> Hundredths(objective_2),
     combined_score |-> Hundredths(combined)]

MetricsA == ScenarioMetrics(90, 90, 80)
MetricsB == ScenarioMetrics(85, 85, 75)
MetricsC == ScenarioMetrics(20, 10, 10)

SampleInputs ==
    { MetricsA, MetricsB, MetricsC,
      [runs_successfully |-> Scale, reviewer_1_overall |-> Hundredths(85)],
      [runs_successfully |-> Scale, combined_score |-> Hundredths(50)] }

SampleAdd(m) == Len(programs) < MaxPrograms /\ AddProgram(m)

\* what sample_parent_inspiration_pairs leaves alone
SamplingFrame ==
    /\ UNCHANGED <<add_arg, add_outcome>>
    /\ UNCHANGED <<poolvars, engvars, waitvars, jobvars,
                 storevars, sshvars, extvars>>

\* the call: fewer than two programs raise the ValueError, otherwise the pool
\* is cut from the sorted programs and the while loop is entered
SampleCall(n, program_pool_size) ==
    /\ sample_pc = "idle"
    /\ n_arg' = n
    /\ pool_arg' = program_pool_size
    /\ IF Len(programs) < 2
       THEN /\ sample_pc' = "precondition"
            /\ UNCHANGED <<pool, remaining>>
       ELSE /\ pool' = ElitePool(programs, program_pool_size)
            /\ remaining' = pool'
            /\ sample_pc' = IF pool' = <<>> THEN "widen" ELSE "peel"
    /\ UNCHANGED <<fronts, steps, empty_front, pairs>>
    /\ SamplingFrame

\* one pass of the while loop
PeelStep ==
    /\ sample_pc = "peel"
    /\ steps' = steps + 1
    /\ LET current_front == CurrentFront(remaining)
       IN IF current_front # <<>>
          THEN /\ fronts' = Append(fronts, current_front)
               /\ remaining' = Without(remaining, current_front)
               /\ sample_pc' = IF remaining' = <<>> THEN "widen" ELSE "peel"
               /\ UNCHANGED empty_front
          ELSE /\ fronts' = Append(fronts, remaining)
               /\ empty_front' = TRUE
               /\ sample_pc' = "widen"
               /\ UNCHANGED remaining
    /\ UNCHANGED <<n_arg, pool_arg, pool, pairs>>
    /\ SamplingFrame

\* one front of fewer than two programs: the front becomes pool[:min(10, len(pool))]
Widen ==
    /\ sample_pc = "widen"
    /\ fronts' = IF Len(fronts) = 1 /\ Len(fronts[1]) < 2
                 THEN <<SubSeq(pool, 1, IF Len(pool) < FallbackSize
                                        THEN Len(pool) ELSE FallbackSize)>>
                 ELSE fronts
    /\ sample_pc' = "pair"
    /\ UNCHANGED <<n_arg, pool_arg, pool, remaining, steps, empty_front, pairs>>
    /\ SamplingFrame

\* one pass of the pairing loop appends a pair
PairStep ==
    /\ sample_pc = "pair"
    /\ Len(pairs) < n_arg
    /\ \/ \E pr \in SameFrontChoices(fronts) :
              pairs' = Append(pairs, <<pr[1].id, pr[2].id, "same">>)
       \/ /\ Len(fronts) > 1
          /\ \E pr \in CrossFrontChoices(fronts) :
                pairs' = Append(pairs, <<pr[1].id, pr[2].id, "cross">>)
    /\ UNCHANGED <<sample_pc, n_arg, pool_arg, pool, remaining, fronts, steps,
                   empty_front>>
    /\ SamplingFrame

\* one pass of the pairing loop raises
PairRaises ==
    /\ sample_pc = "pair"
    /\ Len(pairs) < n_arg
    /\ PairingRaises(fronts)
    /\ sample_pc' = "raised"
    /\ UNCHANGED <<n_arg, pool_arg, pool, remaining, fronts, steps, empty_front,
                   pairs>>
    /\ SamplingFrame

\* return pairs
SampleReturn ==
    /\ sample_pc = "pair"
    /\ Len(pairs) = n_arg
    /\ sample_pc' = "returned"
    /\ UNCHANGED <<n_arg, pool_arg, pool, remaining, fronts, steps, empty_front,
                   pairs>>
    /\ SamplingFrame

SampleNext ==
    \/ \E m \in SampleInputs : SampleAdd(m)
    \/ \E n \in 0..MaxN, k \in -1..MaxPoolSize : SampleCall(n, k)
    \/ PeelStep
    \/ Widen
    \/ PairStep
    \/ PairRaises
    \/ SampleReturn

SampleSpec == LibraryInit /\ [][SampleNext]_vars

(***************************************************************************)
(* StoreSpec: one repository on its storage directory.  Programs are       *)
(* added, pairs are sampled, save() writes the snapshot file of the        *)
(* current second piece by piece, the process can end at any point, and a  *)
(* new repository is constructed on the directory (program_library.py      *)
(* 59-115).                                                                *)
(***************************************************************************)
\* time.time() at the start, in seconds
StartTime == 1700000000

RECURSIVE Digits(_)
\* the decimal digits of a number, as str() writes them
Digits(k) == IF k < 10 THEN <<k>> ELSE Append(Digits(k \div 10), k % 10)

\* f"program_library_{timestamp}.json" with timestamp = int(time.time()):
\* the name is told by the digits of the timestamp
FileName(t) == Digits(StartTime + t)

RECURSIVE LexLessFrom(_, _, _)
\* string comparison from position i on: the first differing character
\* decides, and a proper prefix is smaller ('.' sorts before every digit)
LexLessFrom(a, b, i) ==
    IF i > Len(a) THEN i <= Len(b)
    ELSE IF i > Len(b) THEN FALSE
    ELSE IF a[i] # b[i] THEN a[i] < b[i]
    ELSE LexLessFrom(a, b, i + 1)

\* latest_file = max(json_files)
LatestFile(names) ==
    CHOOSE x \in names : \A y \in names \ {x} : LexLessFrom(y, x, 1)

\* self.metrics as update_metrics leaves it: the entries of the given map
\* and the combined_score entry
MetricsDict(prog) == [entries |-> prog.metrics, combined_score |-> prog.combined_score]

\* faulty variant: the parent ids are not written
ToJson_NoParents(prog) ==
    [id |-> prog.id, content |-> prog.content, parent_ids |-> <<>>,
     creation_method |-> prog.creation_method, metrics |-> MetricsDict(prog),
     metadata |-> prog.metadata]

\* Program.to_json
ToJson(prog) ==
    [id |-> prog.id, content |-> prog.content, parent_ids |-> prog.parent_ids,
     creation_method |-> prog.creation_method, metrics |-> MetricsDict(prog),
     metadata |-> prog.metadata]

\* Program(**prog_data)
FromJson(prog_data) ==
    [id |-> prog_data.id,
     content |-> prog_data.content,
     parent_ids |-> prog_data.parent_ids,
     creation_method |-> prog_data.creation_method,
     metrics |-> prog_data.metrics.entries,
     combined_score |-> prog_data.metrics.combined_score,
     metadata |-> prog_data.metadata]

\* data of save(): one (prog_id, prog.to_json()) item per program
SaveData(progs) == [i \in 1..Len(progs) |-> <<progs[i].id, ToJson(progs[i])>>]

RECURSIVE LoadPrograms(_)
\* the loop of __init__ over data['programs'].items()
LoadPrograms(entries) ==
    IF entries = <<>> THEN <<>>
    ELSE AddToPrograms(LoadPrograms(SubSeq(entries, 1, Len(entries) - 1)),
                       FromJson(entries[Len(entries)][2]))

\* a file open(filepath, 'w') has created or truncated
EmptyFile == [entries |-> <<>>, closed |-> FALSE]

WriteFile(fs, name, content) ==
    [x \in DOMAIN fs \cup {name} |-> IF x = name THEN content ELSE fs[x]]

\* a metric map without the runs_successfully key
NoViability == [reviewer_1_overall |-> Scale]

StoreMetrics == {MetricsA, NoViability}

StoreMetadata == {EmptyDict, {<<"review", "ok">>}}

\* the parent_ids arguments: None, or the ids of two stored programs
ParentIds(progs) ==
    {<<>>} \cup (IF Len(progs) >= 2 THEN {<<1, 2>>} ELSE {})

\* a repository exists: constructed on an empty directory, or restored
Live == lib_state \in {"live", "restored"}

\* what the repository operations leave alone
StoreFrame ==
    /\ UNCHANGED <<eng_pc, eng_error, max_iterations, pool_size, generation,
                   program_list, parent_ids_list, fold_i, snapshot, gen_log,
                   save_log>>
    /\ UNCHANGED <<poolvars, waitvars, jobvars, libvars, sshvars, extvars>>

\* add_program(content, metrics, metadata, parent_ids, creation_method)
StoreAdd(m, parent_ids, metadata) ==
    /\ Live
    /\ save_pc = "idle"
    /\ Len(programs) < MaxStored
    /\ IF UpdateMetricsRaises(m)
       THEN /\ store_op' = "add_raised"
            /\ UNCHANGED programs
       ELSE /\ store_op' = "add"
            /\ programs' =
                  AddToPrograms(programs,
                     UpdateMetadata(
                        NewProgram(programs, "p", m, parent_ids,
                                   IF parent_ids = <<>> THEN "initial" ELSE "mutation"),
                        metadata))
    /\ UNCHANGED <<files, now, save_pc, save_name, save_data, lib_state>>
    /\ StoreFrame

\* sample_parent_inspiration_pairs: reads self.programs, returns or raises
StoreSample ==
    /\ Live
    /\ save_pc = "idle"
    /\ store_op' = IF SamplingRaises(programs, 1, FallbackSize)
                   THEN "sample_raised" ELSE "sample"
    /\ UNCHANGED <<programs, files, now, save_pc, save_name, save_data, lib_state>>
    /\ StoreFrame

\* a second passes
Tick ==
    /\ now < MaxTime
    /\ now' = now + 1
    /\ UNCHANGED <<programs, files, save_pc, save_name, save_data, lib_state,
                   store_op>>
    /\ StoreFrame

\* save(): the name from the clock, data built, the file opened for writing
SaveOpen ==
    /\ Live
    /\ save_pc = "idle"
    /\ save_pc' = "writing"
    /\ save_name' = FileName(now)
    /\ save_data' = SaveData(programs)
    /\ files' = WriteFile(files, FileName(now), EmptyFile)
    /\ store_op' = "save_open"
    /\ UNCHANGED <<programs, now, lib_state>>
    /\ StoreFrame

\* json.dump writes the next piece of data to the file
SaveWrite ==
    /\ save_pc = "writing"
    /\ Len(files[save_name].entries) < Len(save_data)
    /\ files' = WriteFile(files, save_name,
                    [entries |-> Append(files[save_name].entries,
                                        save_data[Len(files[save_name].entries) + 1]),
                     closed |-> FALSE])
    /\ store_op' = "save_write"
    /\ UNCHANGED <<programs, now, save_pc, save_name, save_data, lib_state>>
    /\ StoreFrame

\* json.dump writes the closing braces, the file is closed, save() returns
SaveClose ==
    /\ save_pc = "writing"
    /\ Len(files[save_name].entries) = Len(save_data)
    /\ files' = WriteFile(files, save_name,
                    [entries |-> files[save_name].entries, closed |-> TRUE])
    /\ save_pc' = "idle"
    /\ save_name' = <<>>
    /\ save_data' = <<>>
    /\ store_op' = "save"
    /\ UNCHANGED <<programs, now, lib_state>>
    /\ StoreFrame

\* the process ends (killed, power loss, an exception that leaves main)
ProcessEnds ==
    /\ Live
    /\ lib_state' = "down"
    /\ save_pc' = "idle"
    /\ save_name' = <<>>
    /\ save_data' = <<>>
    /\ store_op' = "end"
    /\ UNCHANGED <<programs, files, now>>
    /\ StoreFrame

\* ProgramLibrary(save_dir): an empty repository on an empty directory, else
\* the programs of the file with the greatest name; json.load raises on a
\* file that was not written to its end
Construct ==
    /\ save_pc = "idle"
    /\ store_op' = "construct"
    /\ IF DOMAIN files = {}
       THEN lib_state' = "live" /\ programs' = <<>>
       ELSE IF files[LatestFile(DOMAIN files)].closed
       THEN /\ lib_state' = "restored"
            /\ programs' = LoadPrograms(files[LatestFile(DOMAIN files)].entries)
       ELSE /\ lib_state' = "load_error"
            /\ programs' = <<>>
    /\ UNCHANGED <<files, now, save_pc, save_name, save_data>>
    /\ StoreFrame

StoreNext ==
    \/ \E m \in StoreMetrics, metadata \in StoreMetadata :
          \E parent_ids \in ParentIds(programs) : StoreAdd(m, parent_ids, metadata)
    \/ StoreSample
    \/ Tick
    \/ SaveOpen
    \/ SaveWrite
    \/ SaveClose
    \/ ProcessEnds
    \/ Construct

StoreSpec == LibraryInit /\ [][StoreNext]_vars

(***************************************************************************)
(* TransportSpec: one with statement over an SSHConnectionManager          *)
(* (ssh.py): __enter__ loads the key and connects host by host, the        *)
(* governed block calls execute_on_all and ends or raises, __exit__ closes *)
(* the sessions.                                                           *)
(***************************************************************************)
\* self.ip_pool
IpPool == [i \in 1..MaxHosts |-> i]

\* faulty variant: entry fails as soon as one host failed to connect
EntryFails_AnyFailed(conns, failed) == failed # <<>>

\* if not self.connections: raise RuntimeError
EntryFails(conns, failed) == conns = <<>>

\* faulty variant: a host that raises ends the loop of execute_on_all
AfterFailure_Abort(i, conns) == Len(conns) + 1

\* the loop of execute_on_all goes on with the next host after the except
AfterFailure(i, conns) == i + 1

\* results[ip] = ("", str(e), -1)
Sentinel == <<"", "error text", -1>>

\* what execute_command returns: (stdout, stderr, exit_code)
CommandOutput(exit_code) ==
    <<"out", IF exit_code = 0 THEN "" ELSE "err", exit_code>>

\* what the transport leaves alone
TransportFrame ==
    UNCHANGED <<poolvars, engvars, waitvars, jobvars, libvars, storevars, install_code,
                extvars>>

\* _load_private_key returns
LoadKeyOk ==
    /\ ssh_pc = "out"
    /\ private_key' = "loaded"
    /\ ssh_pc' = "connecting"
    /\ ssh_i' = 1
    /\ UNCHANGED <<connections, failed_connections, open_clients, exec_results,
                   block_raised, leaving>>
    /\ TransportFrame

\* _load_private_key raises (no file, not a key, password required):
\* __enter__ ends before any host is tried
LoadKeyRaises ==
    /\ ssh_pc = "out"
    /\ private_key' = "failed"
    /\ ssh_pc' = "enter_raised"
    /\ leaving' = "key"
    /\ UNCHANGED <<connections, failed_connections, ssh_i, open_clients,
                   exec_results, block_raised>>
    /\ TransportFrame

\* _connect_to_host(ip) returns a client: self.connections[ip] = client
ConnectOk ==
    /\ ssh_pc = "connecting"
    /\ ssh_i <= Len(IpPool)
    /\ connections' = Append(connections, IpPool[ssh_i])
    /\ open_clients' = open_clients \cup {IpPool[ssh_i]}
    /\ ssh_i' = ssh_i + 1
    /\ UNCHANGED <<ssh_pc, private_key, failed_connections, exec_results,
                   block_raised, leaving>>
    /\ TransportFrame

\* _connect_to_host(ip) raises: failed_connections.append(ip)
ConnectRaises ==
    /\ ssh_pc = "connecting"
    /\ ssh_i <= Len(IpPool)
    /\ failed_connections' = Append(failed_connections, IpPool[ssh_i])
    /\ ssh_i' = ssh_i + 1
    /\ UNCHANGED <<ssh_pc, private_key, connections, open_clients, exec_results,
                   block_raised, leaving>>
    /\ TransportFrame

\* the end of __enter__: RuntimeError without a connection, else return self
EnterEnds ==
    /\ ssh_pc = "connecting"
    /\ ssh_i > Len(IpPool)
    /\ IF EntryFails(connections, failed_connections)
       THEN ssh_pc' = "enter_raised" /\ leaving' = "RuntimeError"
       ELSE ssh_pc' = "in" /\ UNCHANGED leaving
    /\ ssh_i' = 0
    /\ UNCHANGED <<private_key, connections, failed_connections, open_clients,
                   exec_results, block_raised>>
    /\ TransportFrame

\* execute_on_all(command): results = {}
ExecuteOnAll ==
    /\ ssh_pc = "in"
    /\ exec_results = <<>>
    /\ ssh_pc' = "exec"
    /\ ssh_i' = 1
    /\ UNCHANGED <<private_key, connections, failed_connections, open_clients,
                   exec_results, block_raised, leaving>>
    /\ TransportFrame

\* results[ip] = self.execute_command(ip, command)
ExecOnHost(exit_code) ==
    /\ ssh_pc = "exec"
    /\ ssh_i <= Len(connections)
    /\ exec_results' = Append(exec_results,
                              <<connections[ssh_i], CommandOutput(exit_code)>>)
    /\ ssh_i' = ssh_i + 1
    /\ UNCHANGED <<ssh_pc, private_key, connections, failed_connections,
                   open_clients, block_raised, leaving>>
    /\ TransportFrame

\* execute_command raises: results[ip] = ("", str(e), -1)
ExecOnHostRaises ==
    /\ ssh_pc = "exec"
    /\ ssh_i <= Len(connections)
    /\ exec_results' = Append(exec_results, <<connections[ssh_i], Sentinel>>)
    /\ ssh_i' = AfterFailure(ssh_i, connections)
    /\ UNCHANGED <<ssh_pc, private_key, connections, failed_connections,
                   open_clients, block_raised, leaving>>
    /\ TransportFrame

\* return results
ExecReturns ==
    /\ ssh_pc = "exec"
    /\ ssh_i > Len(connections)
    /\ ssh_pc' = "in"
    /\ ssh_i' = 0
    /\ UNCHANGED <<private_key, connections, failed_connections, open_clients,
                   exec_results, block_raised, leaving>>
    /\ TransportFrame

\* the governed block ends, normally or with an exception: __exit__ starts
BlockEnds(raised) ==
    /\ ssh_pc = "in"
    /\ block_raised' = raised
    /\ ssh_pc' = "closing"
    /\ ssh_i' = 1
    /\ UNCHANGED <<private_key, connections, failed_connections, open_clients,
                   exec_results, leaving>>
    /\ TransportFrame

\* client.close() returns
CloseOk ==
    /\ ssh_pc = "closing"
    /\ ssh_i <= Len(connections)
    /\ open_clients' = open_clients \ {connections[ssh_i]}
    /\ ssh_i' = ssh_i + 1
    /\ UNCHANGED <<ssh_pc, private_key, connections, failed_connections,
                   exec_results, block_raised, leaving>>
    /\ TransportFrame

\* client.close() raises: the except block raises a str, which is a
\* TypeError that leaves __exit__ in place of any exception of the block
CloseRaises ==
    /\ ssh_pc = "closing"
    /\ ssh_i <= Len(connections)
    /\ ssh_pc' = "exit_raised"
    /\ leaving' = "TypeError"
    /\ UNCHANGED <<private_key, connections, failed_connections, ssh_i,
                   open_clients, exec_results, block_raised>>
    /\ TransportFrame

\* self.connections.clear(); return False
ExitEnds ==
    /\ ssh_pc = "closing"
    /\ ssh_i > Len(connections)
    /\ connections' = <<>>
    /\ ssh_pc' = "exited"
    /\ leaving' = IF block_raised THEN "block" ELSE "none"
    /\ ssh_i' = 0
    /\ UNCHANGED <<private_key, failed_connections, open_clients, exec_results,
                   block_raised>>
    /\ TransportFrame

TransportNext ==
    \/ LoadKeyOk
    \/ LoadKeyRaises
    \/ ConnectOk
    \/ ConnectRaises
    \/ EnterEnds
    \/ ExecuteOnAll
    \/ \E exit_code \in ExitCodes : ExecOnHost(exit_code)
    \/ ExecOnHostRaises
    \/ ExecReturns
    \/ \E raised \in BOOLEAN : BlockEnds(raised)
    \/ CloseOk
    \/ CloseRaises
    \/ ExitEnds

\* a manager that no with statement has entered yet
TransportSpec == LibraryInit /\ [][TransportNext]_vars

(***************************************************************************)
(* ProvisionSpec: the with statement over a RemoteEvaluatorServerManager   *)
(* up to the calls of the governed block.  __enter__ (client.py 43-71)     *)
(* runs the transport's __enter__, stages the files, installs the          *)
(* dependencies and sets available_ips; the block then calls               *)
(* execute_evaluation_auto.                                                *)
(***************************************************************************)
\* available_ips before __enter__ has set it: the class attribute None,
\* in which acquire_ip finds no host
NoAvailableIps == <<>>

\* faulty variant: every host of ip_pool is made available
AvailableAfterEntry_WholePool(conns) == IpPool

\* self.available_ips = list(self.connections.keys())
AvailableAfterEntry(conns) == conns

\* if result.returncode != 0: raise RuntimeError
InstallFails(exit_code) == exit_code # 0

ProvisionInit ==
    /\ available_ips = NoAvailableIps
    /\ occupied_ips = {}
    /\ cache_data = [k \in CacheKeys |-> NoEntry]
    /\ pc = [c \in Calls |-> "idle"]
    /\ ip = [c \in Calls |-> NoIp]
    /\ code = [c \in Calls |-> NoCode]
    /\ cached_response = [c \in Calls |-> NoEntry]
    /\ wrote_task = [c \in Calls |-> FALSE]
    /\ issued_cmd = [c \in Calls |-> FALSE]
    /\ artifact = [c \in Calls |-> Absent]
    /\ result = [c \in Calls |-> NoResult]
    /\ lingering = [h \in Hosts |-> 0]
    /\ returned_completed = [p \in Codes |-> NoResult]
    /\ prior = [c \in Calls |-> NoResult]
    /\ cache_mode = "none"
    /\ wait_timeout = "none"
    /\ NoEngine
    /\ NoWait
    /\ NoSessions
    /\ NoSampling
    /\ NoStore
    /\ NoTransport
    /\ NoExt

\* what the steps of the manager's __enter__ leave alone
ProvisionFrame ==
    /\ UNCHANGED <<occupied_ips, cache_mode, cache_data, wait_timeout, pc, ip,
                   code, cached_response, wrote_task, issued_cmd, artifact,
                   result, lingering, returned_completed, prior>>
    /\ UNCHANGED <<engvars, waitvars, jobvars, libvars, storevars, extvars>>

\* super().__enter__() ends: RuntimeError without a connection, else the
\* manager goes on to stage the files
SuperEnterEnds ==
    /\ ssh_pc = "connecting"
    /\ ssh_i > Len(IpPool)
    /\ IF EntryFails(connections, failed_connections)
       THEN ssh_pc' = "enter_raised" /\ leaving' = "RuntimeError"
       ELSE ssh_pc' = "staging" /\ UNCHANGED leaving
    /\ ssh_i' = 0
    /\ UNCHANGED <<private_key, connections, failed_connections, open_clients,
                   exec_results, block_raised, install_code, available_ips>>
    /\ ProvisionFrame

\* the shutil copies and os.makedirs return
StageOk ==
    /\ ssh_pc = "staging"
    /\ ssh_pc' = "install"
    /\ UNCHANGED <<private_key, connections, failed_connections, ssh_i,
                   open_clients, exec_results, block_raised, leaving,
                   install_code, available_ips>>
    /\ ProvisionFrame

\* a copy raises (a source is missing, the target exists): __enter__ ends
\* with the exception, nothing catches it and __exit__ is not called
StageRaises ==
    /\ ssh_pc = "staging"
    /\ ssh_pc' = "enter_raised"
    /\ leaving' = "staging"
    /\ UNCHANGED <<private_key, connections, failed_connections, ssh_i,
                   open_clients, exec_results, block_raised, install_code,
                   available_ips>>
    /\ ProvisionFrame

\* subprocess.run of uv sync returns with this code: RuntimeError on a
\* non-zero code, else available_ips is set and __enter__ returns self
InstallDependencies(exit_code) ==
    /\ ssh_pc = "install"
    /\ install_code' = exit_code
    /\ IF InstallFails(exit_code)
       THEN /\ ssh_pc' = "enter_raised"
            /\ leaving' = "RuntimeError"
            /\ UNCHANGED available_ips
       ELSE /\ ssh_pc' = "in"
            /\ available_ips' = AvailableAfterEntry(connections)
            /\ UNCHANGED leaving
    /\ UNCHANGED <<private_key, connections, failed_connections, ssh_i,
                   open_clients, exec_results, block_raised>>
    /\ ProvisionFrame

\* a step of an execute_evaluation_auto call of the governed block
BlockCall(c) ==
    /\ ssh_pc = "in"
    /\ \/ PoolStart(c)
       \/ PoolAcquire(c)
       \/ PoolExecute(c)
       \/ PoolRelease(c)

ProvisionNext ==
    \/ LoadKeyOk
    \/ LoadKeyRaises
    \/ ConnectOk
    \/ ConnectRaises
    \/ SuperEnterEnds
    \/ StageOk
    \/ StageRaises
    \/ \E exit_code \in ExitCodes : InstallDependencies(exit_code)
    \/ \E c \in Calls : BlockCall(c)

ProvisionSpec == ProvisionInit /\ [][ProvisionNext]_vars

(***************************************************************************)
(* LlmSpec: one _generate call of a text-generation backend                *)
(* (api/interface_openai.py 89-116, interface_anthropic.py 109-141,        *)
(* interface_litellm.py 205-257): the for loop over range(retries) with    *)
(* its try/except.                                                         *)
(***************************************************************************)
Backends == {"openai", "anthropic", "litellm"}

\* the statement after the sleep of the except block: the OpenAI backend
\* has raise e after the if, the other two have it in the else branch
RaisesAfterSleep(backend) == backend = "openai"

\* what _generate leaves alone
LlmFrame ==
    UNCHANGED <<poolvars, engvars, waitvars, jobvars, libvars, storevars, sshvars,
                genvars, workervars>>

\* _generate is called on a backend configured with these retries
GenerateCall(backend, retries) ==
    /\ llm_pc = "idle"
    /\ llm_backend' = backend
    /\ llm_retries' = retries
    /\ llm_attempt' = 0
    /\ llm_pc' = "request"
    /\ UNCHANGED <<llm_failed, llm_sleeps>>
    /\ LlmFrame

\* the request of this attempt returns: return the message
RequestReturns ==
    /\ llm_pc = "request"
    /\ llm_pc' = "returned"
    /\ UNCHANGED <<llm_backend, llm_retries, llm_attempt, llm_failed, llm_sleeps>>
    /\ LlmFrame

\* the request raises: sleep when attempt < retries - 1, else raise e
RequestRaises ==
    /\ llm_pc = "request"
    /\ llm_failed' = llm_failed + 1
    /\ llm_pc' = IF llm_attempt < llm_retries - 1 THEN "sleep" ELSE "raised"
    /\ UNCHANGED <<llm_backend, llm_retries, llm_attempt, llm_sleeps>>
    /\ LlmFrame

\* asyncio.sleep(retry_delay) ends: the next statement of the except block,
\* or the next round of the loop
SleepEnds ==
    /\ llm_pc = "sleep"
    /\ llm_sleeps' = llm_sleeps + 1
    /\ IF RaisesAfterSleep(llm_backend)
       THEN llm_pc' = "raised" /\ UNCHANGED llm_attempt
       ELSE llm_pc' = "request" /\ llm_attempt' = llm_attempt + 1
    /\ UNCHANGED <<llm_backend, llm_retries, llm_failed>>
    /\ LlmFrame

LlmNext ==
    \/ \E backend \in Backends, retries \in 1..MaxRetries :
          GenerateCall(backend, retries)
    \/ RequestReturns
    \/ RequestRaises
    \/ SleepEnds

LlmSpec == LibraryInit /\ [][LlmNext]_vars

(***************************************************************************)
(* GenSpec: one gen_program call on a traditional backend without a cache  *)
(* hit (evolution/main.py 164-201) and its extract_code (203-212).  A text *)
(* is a sequence of tokens: the fence marker, the word python, the line    *)
(* break, and "x" for any other character.                                 *)
(***************************************************************************)
\* the token that stands for the three backquotes
Fence == "fence"

Tokens == {Fence, "python", "\n", "x"}

Texts == UNION { [1..n -> Tokens] : n \in 0..MaxText }

HasFence(text) == \E i \in 1..Len(text) : text[i] = Fence

\* the opening ```(?:python)?\n of the pattern matched at position i: the
\* position after it, or 0 when it does not match there
ContentStart(text, i) ==
    IF text[i] # Fence THEN 0
    ELSE IF i + 2 <= Len(text) /\ text[i + 1] = "python" /\ text[i + 2] = "\n"
         THEN i + 3
    ELSE IF i + 1 <= Len(text) /\ text[i + 1] = "\n" THEN i + 2
    ELSE 0

\* the lazy group and the closing fence, from position k: the first fence
\* at or after k, or 0
ClosingFence(text, k) ==
    LET later == { j \in k..Len(text) : text[j] = Fence }
    IN  IF later = {} THEN 0 ELSE CHOOSE j \in later : \A m \in later : j <= m

\* re.findall(pattern, text, re.DOTALL): the groups of the matches found
\* from left to right, each search starting after the previous match
RECURSIVE FindAll(_, _)
FindAll(text, i) ==
    IF i > Len(text) THEN <<>>
    ELSE LET k == ContentStart(text, i)
             j == IF k = 0 THEN 0 ELSE ClosingFence(text, k)
         IN  IF j = 0 THEN FindAll(text, i + 1)
             ELSE <<SubSeq(text, k, j - 1)>> \o FindAll(text, j + 1)

\* match.strip()
RECURSIVE Strip(_)
Strip(text) ==
    IF text = <<>> THEN text
    ELSE IF Head(text) = "\n" THEN Strip(Tail(text))
    ELSE IF text[Len(text)] = "\n" THEN Strip(SubSeq(text, 1, Len(text) - 1))
    ELSE text

\* the parts joined by line breaks
RECURSIVE Join(_)
Join(parts) ==
    IF parts = <<>> THEN <<>>
    ELSE IF Len(parts) = 1 THEN parts[1]
    ELSE parts[1] \o <<"\n">> \o Join(Tail(parts))

ExtractCode(text) ==
    LET matches == FindAll(text, 1)
    IN  IF matches # <<>>
        THEN Join([m \in 1..Len(matches) |-> Strip(matches[m])])
        ELSE text

\* what gen_program leaves alone
GenFrame ==
    UNCHANGED <<poolvars, engvars, waitvars, jobvars, libvars, storevars, sshvars,
                llmvars, workervars>>

\* gen_program is called and awaits self.llm.generate(prompt)
GenProgramCall ==
    /\ gen_pc = "idle"
    /\ gen_pc' = "generate"
    /\ UNCHANGED <<original_code, program_code>>
    /\ GenFrame

\* generate returns a text
GenerateReturns ==
    /\ gen_pc = "generate"
    /\ original_code' \in Texts
    /\ gen_pc' = "extract"
    /\ UNCHANGED program_code
    /\ GenFrame

\* generate raises after its last attempt: the exception leaves gen_program
GenerateRaises ==
    /\ gen_pc = "generate"
    /\ gen_pc' = "raised"
    /\ UNCHANGED <<original_code, program_code>>
    /\ GenFrame

\* program_code = EvolutionEngine.extract_code(original_code)
Extract ==
    /\ gen_pc = "extract"
    /\ program_code' = ExtractCode(original_code)
    /\ gen_pc' = "check"
    /\ UNCHANGED original_code
    /\ GenFrame

\* if "```" in program_code: the bare raise ends gen_program
ExtractFailed ==
    /\ gen_pc = "check"
    /\ HasFence(program_code)
    /\ gen_pc' = "raised"
    /\ UNCHANGED <<original_code, program_code>>
    /\ GenFrame

\* return program_code
GenProgramReturns ==
    /\ gen_pc = "check"
    /\ ~HasFence(program_code)
    /\ gen_pc' = "returned"
    /\ UNCHANGED <<original_code, program_code>>
    /\ GenFrame

GenNext ==
    \/ GenProgramCall
    \/ GenerateReturns
    \/ GenerateRaises
    \/ Extract
    \/ ExtractFailed
    \/ GenProgramReturns

GenSpec == LibraryInit /\ [][GenNext]_vars

(***************************************************************************)
(* WorkerSpec: one run of main of evaluator_worker.py on a host            *)
(* (evaluator_worker.py 13-69): the try block up to evaluator.evaluate,    *)
(* the except block, and the finally block that dumps the dict result and  *)
(* writes the result artifact.  The artifact is written piece by piece,    *)
(* and the process can be ended from outside at any point.                 *)
(***************************************************************************)
\* result = {'success': False, 'result': None, 'metadata': None, 'error': None}
InitialResult ==
    [success |-> FALSE, result |-> NoMetrics, metadata |-> "none",
     error |-> "none", traceback |-> "absent"]

\* what raises in the try block before evaluate is called: a missing code
\* file, a failing import, a task configuration that cannot be loaded
SetupErrors == {"FileNotFoundError", "ImportError", "ConfigError"}

\* the second element evaluate returns: None, a dict json.dumps accepts, or
\* a value json.dumps rejects
MetadataValues == {"none", "meta", "object"}

\* faulty variant: the except block leaves the dict as it is
ExceptResult_Untouched(r, e) == r

\* the except block: success False, the error text and the traceback
ExceptResult(r, e) ==
    [r EXCEPT !.success = FALSE, !.error = e, !.traceback = "traceback"]

\* the three assignments after evaluate returned
ReturnedResult(r, m, meta) ==
    [r EXCEPT !.success = TRUE, !.result = m, !.metadata = meta]

\* json.dumps(result, ensure_ascii=False, indent=2) raises on a value that
\* is not JSON
DumpRaises(r) == r.metadata = "object"

\* the document json.dumps builds: the items of the dict in insertion order
DumpResult(r) ==
    << <<"success", r.success>>, <<"result", r.result>>,
       <<"metadata", r.metadata>>, <<"error", r.error>> >>
    \o (IF r.traceback = "absent" THEN <<>>
        ELSE << <<"traceback", r.traceback>> >>)

\* the value of a key of a document
Field(doc, key) == doc[CHOOSE i \in 1..Len(doc) : doc[i][1] = key][2]

\* what the worker leaves alone
WorkerFrame ==
    UNCHANGED <<poolvars, engvars, waitvars, jobvars, libvars, storevars, sshvars,
                llmvars, genvars>>

\* the tmux session starts the worker: the dict result is initialised
WorkerLaunch ==
    /\ worker_pc = "idle"
    /\ worker_result' = InitialResult
    /\ worker_pc' = "try"
    /\ UNCHANGED <<evaluated, output_file, writes>>
    /\ WorkerFrame

\* a statement of the try block before evaluate raises
SetupRaises(e) ==
    /\ worker_pc = "try"
    /\ worker_result' = ExceptResult(worker_result, e)
    /\ worker_pc' = "finally"
    /\ UNCHANGED <<evaluated, output_file, writes>>
    /\ WorkerFrame

\* eval_result, metadata = evaluator.evaluate(code) returns
WorkerEvaluateReturns(m, meta) ==
    /\ worker_pc = "try"
    /\ evaluated' = [kind |-> "returned", metrics |-> m, metadata |-> meta]
    /\ worker_result' = ReturnedResult(worker_result, m, meta)
    /\ worker_pc' = "finally"
    /\ UNCHANGED <<output_file, writes>>
    /\ WorkerFrame

\* evaluator.evaluate(code) raises
WorkerEvaluateRaises ==
    /\ worker_pc = "try"
    /\ evaluated' = [kind |-> "raised"]
    /\ worker_result' = ExceptResult(worker_result, "EvaluateError")
    /\ worker_pc' = "finally"
    /\ UNCHANGED <<output_file, writes>>
    /\ WorkerFrame

\* finally: json.dumps raises and the exception ends main
WorkerDumpRaises ==
    /\ worker_pc = "finally"
    /\ DumpRaises(worker_result)
    /\ worker_pc' = "crashed"
    /\ UNCHANGED <<evaluated, worker_result, output_file, writes>>
    /\ WorkerFrame

\* finally: output_file.write_text(...) opens the artifact, which is empty
WorkerWriteOpens ==
    /\ worker_pc = "finally"
    /\ ~DumpRaises(worker_result)
    /\ output_file' = <<>>
    /\ writes' = writes + 1
    /\ worker_pc' = "writing"
    /\ UNCHANGED <<evaluated, worker_result>>
    /\ WorkerFrame

\* the next piece of the document reaches the artifact
WorkerWritePiece ==
    /\ worker_pc = "writing"
    /\ Len(output_file) < Len(DumpResult(worker_result))
    /\ output_file' = SubSeq(DumpResult(worker_result), 1, Len(output_file) + 1)
    /\ UNCHANGED <<worker_pc, evaluated, worker_result, writes>>
    /\ WorkerFrame

\* write_text returns, the last print is made and main returns
WorkerEnds ==
    /\ worker_pc = "writing"
    /\ output_file = DumpResult(worker_result)
    /\ worker_pc' = "ended"
    /\ UNCHANGED <<evaluated, worker_result, output_file, writes>>
    /\ WorkerFrame

\* the process is ended from outside: the session is killed or the host fails
WorkerKilled ==
    /\ worker_pc \in {"try", "finally", "writing"}
    /\ worker_pc' = "killed"
    /\ UNCHANGED <<evaluated, worker_result, output_file, writes>>
    /\ WorkerFrame

WorkerNext ==
    \/ WorkerLaunch
    \/ \E e \in SetupErrors : SetupRaises(e)
    \/ \E m \in EvaluateReturns, meta \in MetadataValues : WorkerEvaluateReturns(m, meta)
    \/ WorkerEvaluateRaises
    \/ WorkerDumpRaises
    \/ WorkerWriteOpens
    \/ WorkerWritePiece
    \/ WorkerEnds
    \/ WorkerKilled

WorkerSpec == LibraryInit /\ [][WorkerNext]_vars

(***************************************************************************)
(* Properties of the worker pool manager.                                  *)
(***************************************************************************)
\* the calls that hold a host: between acquire_ip's return and _release_ip
Holders == { c \in Calls : pc[c] \in {"exec", "launch", "poll", "release"} }

\* the calls inside execute_evaluation
InExecute == { c \in Calls : pc[c] \in {"exec", "launch", "poll"} }

\* C1: at every moment each host is held by at most one caller: acquire_ip
\* never returns a host that another call acquired and has not yet released.
C1_HostHeldByOneCaller ==
    \A c, d \in Holders : c # d => ip[c] # ip[d]

\* two calls hold the two hosts while a third call waits in acquire_ip
C1_Witness ==
    \E c, d, e \in Calls :
       /\ c \in Holders /\ d \in Holders /\ c # d
       /\ pc[e] = "acquire"

\* C2: the hosts marked occupied are exactly the hosts of the calls that are
\* between acquire_ip and the finally block: a call that has ended, by return
\* or by exception, holds nothing, and a call that got no host changed nothing.
C2_ReleasedOnEveryPath ==
    /\ occupied_ips = { ip[c] : c \in Holders }
    /\ \A c \in Calls : c \notin Holders => ip[c] = NoIp

\* every call raises in execute_evaluation; one has ended and no host is occupied
C2_Witness ==
    /\ cache_mode = "unserializable"
    /\ wait_timeout = "none"
    /\ occupied_ips = {}
    /\ \E c \in Calls : pc[c] = "done"

\* C3: with k connected hosts at most k calls are inside execute_evaluation at
\* the same time; a call waiting in acquire_ip holds no host.
C3_AtMostPoolSizeRunning ==
    /\ Cardinality(InExecute) <= Len(available_ips)
    /\ \A c \in Calls : pc[c] = "acquire" => ip[c] = NoIp

\* 2 hosts and 5 calls: 2 calls run and 3 wait in acquire_ip
C3_Witness ==
    /\ Len(available_ips) = 2
    /\ Cardinality(InExecute) = 2
    /\ Cardinality({ c \in Calls : pc[c] = "acquire" }) = 3

\* C4 as claimed: at most one launched job that has not written its result
\* artifact on any host, also after an earlier evaluation there timed out.
C4_OneJobInFlightPerHost ==
    \A h \in Hosts : InFlight(h) <= 1

\* C4 amended: at most one job whose evaluation is still being waited for is
\* in flight on any host; jobs of timed-out evaluations are left running beside it.
C4_OneAwaitedJobPerHost ==
    \A h \in Hosts : Cardinality(PolledJobs(h)) <= 1

\* a job of a timed-out evaluation still runs on a host where the next
\* evaluation's job was launched
C4_Witness ==
    \E h \in Hosts : lingering[h] >= 1 /\ PolledJobs(h) # {}

C6_FailuresNeverStopLoop ==
    (cache_mode = "none" /\ pool_size >= 2 /\ eng_pc = "raised") => eng_error = "llm"

\* C7: run_evolution runs create_generation for generation 0 and then for
\* 1, 2, ..., max_iterations in this order; when it returns, max_iterations + 1
\* generations have run and each saved its snapshot.
C7_RunsAllGenerations ==
    /\ Len(gen_log) <= max_iterations + 1
    /\ \A i \in 1..Len(gen_log) : gen_log[i] = i - 1
    /\ eng_pc = "returned" =>
          /\ gen_log = [i \in 1..(max_iterations + 1) |-> i - 1]
          /\ save_log = gen_log

\* run_evolution has returned after generations 0, 1 and 2
C7_Witness ==
    /\ eng_pc = "returned"
    /\ max_iterations = 2
    /\ gen_log = <<0, 1, 2>>
    /\ save_log = <<0, 1, 2>>

\* C8: within a generation no program is added before every evaluation of the
\* generation has ended, the generation's one snapshot is written after the
\* last addition and holds the whole repository, and the next generation
\* starts, and samples its parents, only after that snapshot.
C8_GenerationStepsInOrder ==
    [][ /\ programs' # programs =>
              /\ eng_pc = "fold"
              /\ \A c \in Slots : pc[c] = "done"
        /\ (snapshot' # snapshot \/ save_log' # save_log) =>
              /\ eng_pc = "fold" /\ fold_i = pool_size + 1
              /\ snapshot' = programs /\ programs' = programs
              /\ save_log' = Append(save_log, generation)
              /\ Len(save_log) = generation
        /\ generation' # generation =>
              /\ eng_pc = "saved"
              /\ snapshot = programs
              /\ Len(save_log) = generation + 1
              /\ generation' = generation + 1
        /\ (gen_log' # gen_log /\ generation > 0) =>
              /\ snapshot = programs
              /\ Len(save_log) = generation
      ]_vars

\* generation 2 has sampled its parents from the saved repository of
\* generation 1, which grew in generation 1, and its evaluations run
C8_Witness ==
    /\ generation = 2 /\ eng_pc = "evaluate"
    /\ Len(programs) >= 3 /\ snapshot = programs
    /\ save_log = <<0, 1>>
    /\ \E c \in Slots : pc[c] # "done"

\* C9 as claimed, for hits on a completed entry: with a cache, an
\* execute_evaluation whose lookup comes after an execute_evaluation returned
\* a completed result for the same code returns that result.
C9_ReturnsEarlierResult ==
    \A c \in Calls :
       (cache_mode = "ok" /\ prior[c] # NoResult /\ pc[c] = "release"
        /\ result[c].kind = "dict" /\ result[c].completed = "yes")
       => result[c] = prior[c]

\* C9 amended: with a cache, an execute_evaluation whose lookup comes after
\* an execute_evaluation returned a completed result for the same code
\* returns the response stored under the key at its lookup, which is the
\* last one written by any evaluation of that code and never a timeout;
\* it writes no task artifact and issues no command to any host.
C9_CacheHitShortCircuits ==
    \A c \in Calls :
       (cache_mode = "ok" /\ prior[c] # NoResult
        /\ pc[c] \in {"launch", "poll", "release"})
       => /\ pc[c] = "release"
          /\ cached_response[c] # NoEntry
          /\ result[c] = JsonLoads(cached_response[c])
          /\ result[c].completed # "no"
          /\ ~wrote_task[c]
          /\ ~issued_cmd[c]
          /\ artifact[c] = Absent

\* a call is about to return a cached completed result that is not the
\* completed result returned before its lookup
C9_Witness ==
    \E c \in Calls :
       /\ cache_mode = "ok" /\ prior[c] # NoResult /\ pc[c] = "release"
       /\ result[c].kind = "dict" /\ result[c].completed = "yes"
       /\ result[c] # prior[c]
       /\ ~wrote_task[c] /\ ~issued_cmd[c]

\* C10 as claimed: every cache entry is the result of an evaluation that
\* completed with success.
C10_OnlySuccessCached ==
    \A k \in CacheKeys :
       cache_data[k] # NoEntry =>
          /\ JsonLoads(cache_data[k]).completed = "yes"
          /\ JsonLoads(cache_data[k]).success

(***************************************************************************)
(* Claims about return values and teardown of the dispatcher.              *)
(***************************************************************************)
\* the calls whose wait_for_result ended with the timeout
TimedOut(c) ==
    /\ pc[c] \in {"release", "done"}
    /\ result[c].kind = "dict"
    /\ "seconds" \in DOMAIN result[c]

C12_LaunchFailureNeverPolls ==
    [][\A c \in EvalCalls :
          /\ (pc[c] = "launch" /\ result'[c].kind = "dict"
                /\ result'[c].error = "tmux")
             => /\ pc'[c] = "release"
                /\ result'[c].success = FALSE
                /\ artifact'[c] = artifact[c]
          /\ pc'[c] = "poll" => result'[c] = NoResult]_vars

\* a call returned the launch failure: the command was issued, no artifact
C12_Witness ==
    \E c \in EvalCalls :
        /\ pc[c] = "release"
        /\ result[c].kind = "dict"
        /\ result[c].error = "tmux"
        /\ issued_cmd[c]
        /\ artifact[c] = Absent

\* C13: the manager never ends a job it launched.  No command it sends ends
\* an existing session (the kill-session inside the launch command names the
\* session that is about to be created, whose task id is new); the timeout of
\* wait_for_result sends nothing and leaves every session as it is; the
\* teardown only closes the transport and leaves every session as it is.
C13_NeverKillsLaunchedJob ==
    [][/\ killed' = {}
       /\ (\E c \in JobCalls : pc[c] = "poll" /\ pc'[c] = "release"
                                /\ result'[c].completed = "no")
          => sessions' = sessions
       /\ (connected /\ ~connected')
          => (sessions' = sessions /\ poolvars' = poolvars)]_vars

\* the manager is torn down while the job of a timed-out evaluation is still
\* running on a host, and more than one job was launched
C13_Witness ==
    /\ ~connected
    /\ \E h \in Hosts : sessions[h] # {} /\ lingering[h] > 0
    /\ next_task >= 2

\* C14 as stated: when no host is free, acquire_ip called with a wait timeout
\* returns none once the timeout has elapsed, for every timeout value, 0
\* included: with the timeout 0 the first pass that finds no host free
\* returns none, so no call with timeout 0 sleeps for another pass.
C14_ZeroTimeoutNeverWaits ==
    wait_timeout = "zero" => \A c \in Calls : pc[c] # "sleep_acquire"

(***************************************************************************)
(* Claims about the program repository.                                    *)
(***************************************************************************)
\* C15 as stated: every program stored in the repository with
\* runs_successfully = 0 has combined_score = 0, whatever metric map
\* add_program accepted (also one that carries a combined_score).
C15_NonViableScoresZero ==
    \A i \in 1..Len(programs) :
        programs[i].metrics["runs_successfully"] = 0
            => programs[i].combined_score[1] = 0

\* the metric maps of C16: runs_successfully > 0, no supplied combined_score
Computed(m) ==
    /\ "runs_successfully" \in DOMAIN m
    /\ "combined_score" \notin DOMAIN m
    /\ m["runs_successfully"] > 0

OtherMetrics(m) == DOMAIN m \ {"runs_successfully"}

\* at least one other metric, every other metric in [0, 1]
OthersValid(m) ==
    /\ OtherMetrics(m) # {}
    /\ \A k \in OtherMetrics(m) : m[k] >= 0 /\ m[k] <= Scale

\* the program stored last has metrics m and combined_score (S / k) * v
StoredWithMeanTimesViability(m) ==
    /\ add_outcome' = "stored"
    /\ programs' # programs
    /\ SubSeq(programs', 1, Len(programs)) = programs
    /\ LET prog == programs'[Len(programs')]
           s == SumOver(m, OtherMetrics(m))
           k == Cardinality(OtherMetrics(m))
           v == m["runs_successfully"]
       IN /\ prog.metrics = m
          /\ prog.combined_score[1] * k * Scale * Scale
                = s * v * prog.combined_score[2]

RejectedNothingStored == add_outcome' = "rejected" /\ programs' = programs

\* C16 as stated: for every metric map with runs_successfully = v > 0, k >= 1
\* other metrics in [0, 1] summing to S and no supplied combined_score,
\* add_program stores combined_score = (S / k) * v; a map with v > 0 and no
\* other metric, or with another metric outside [0, 1], is rejected and
\* nothing is stored.
C16_StoredForEveryViability ==
    [][(AddCall(add_arg') /\ Computed(add_arg'))
          => IF OthersValid(add_arg')
             THEN StoredWithMeanTimesViability(add_arg')
             ELSE RejectedNothingStored]_vars

\* C16 as the code has it: the same, for 0 < v <= 1 only; runs_successfully
\* itself has to lie in [0, 1], a map with v > 1 is rejected like a map with
\* another metric outside [0, 1], and nothing is stored.
C16_MeanTimesViability ==
    [][(AddCall(add_arg') /\ Computed(add_arg'))
          => IF OthersValid(add_arg') /\ add_arg'["runs_successfully"] <= Scale
             THEN StoredWithMeanTimesViability(add_arg')
             ELSE RejectedNothingStored]_vars

\* a program was stored with a computed score for 0 < v < 1 and two other
\* metrics that are not both 0
C16_Witness ==
    /\ add_outcome = "stored"
    /\ Computed(add_arg)
    /\ add_arg["runs_successfully"] < Scale
    /\ Cardinality(OtherMetrics(add_arg)) = 2
    /\ programs[Len(programs)].combined_score[1] > 0

\* the ids of the programs of a list
IdsOf(list) == { list[i].id : i \in 1..Len(list) }

\* the index of the front that holds the program with this id (0: none)
FrontIndex(id) ==
    IF \E f \in 1..Len(fronts) : id \in IdsOf(fronts[f])
    THEN CHOOSE f \in 1..Len(fronts) : id \in IdsOf(fronts[f])
    ELSE 0

\* the while loop has ended and the fronts are as it left them
Peeled == sample_pc = "widen"

\* C17: every pass of the while loop over the elite pool extracts a
\* non-empty front of non-dominated programs (the branch for an empty front
\* is never taken), the loop makes at most |pool| passes, and the fronts
\* together with what remains always hold every pool program exactly once,
\* so that at the end of the loop every pool program is in exactly one front.
C17_PeelingPartitionsPool ==
    /\ ~empty_front
    /\ steps <= Len(pool)
    /\ sample_pc \in {"peel", "widen"} =>
          /\ steps = Len(fronts)
          /\ \A f \in 1..Len(fronts) : fronts[f] # <<>>
          /\ Len(Flatten(fronts)) + Len(remaining) = Len(pool)
          /\ IdsOf(Flatten(fronts)) \cup IdsOf(remaining) = IdsOf(pool)
          /\ Cardinality(IdsOf(pool)) = Len(pool)
    /\ Peeled =>
          /\ remaining = <<>>
          /\ \A i \in 1..Len(pool) :
                Cardinality({ f \in 1..Len(fronts) : pool[i].id \in IdsOf(fronts[f]) }) = 1

\* a pool of three programs was peeled in three passes, one program each
C17_Witness ==
    /\ Peeled
    /\ Len(pool) = 3
    /\ steps = 3
    /\ Len(fronts) = 3

\* A's objective vector dominates B's: the same number of objectives, none
\* smaller and one greater
VectorDominates(a, b) ==
    LET va == GetObjectives(a)
        vb == GetObjectives(b)
    IN /\ Len(va) = Len(vb)
       /\ \A i \in 1..Len(va) : va[i] >= vb[i]
       /\ \E i \in 1..Len(va) : va[i] > vb[i]

\* C18: for any two programs A and B of the elite pool, if A's objective
\* vector dominates B's, the index of A's front is not greater than the index
\* of B's front.
C18_DominatorNotLater ==
    Peeled =>
        \A i, j \in 1..Len(pool) :
            VectorDominates(pool[i], pool[j])
                => FrontIndex(pool[i].id) <= FrontIndex(pool[j].id)

\* a pool with a program whose vector dominates another's, in an earlier front
C18_Witness ==
    /\ Peeled
    /\ \E i, j \in 1..Len(pool) :
          /\ VectorDominates(pool[i], pool[j])
          /\ FrontIndex(pool[i].id) >= 1
          /\ FrontIndex(pool[i].id) < FrontIndex(pool[j].id)

\* the repository holds exactly A, B and C, the call has program_pool_size = 3
Scenario ==
    /\ Len(programs) = 3
    /\ { programs[i].metrics : i \in 1..3 } = {MetricsA, MetricsB, MetricsC}
    /\ pool_arg = 3
    /\ Peeled

\* the id of the program with these metrics
IdOf(m) == (CHOOSE i \in 1..Len(programs) : programs[i].metrics = m)

\* C19 as stated: for the repository holding A (combined 0.9, objectives
\* [0.9, 0.8]), B (0.85, [0.85, 0.75]) and C (0.2, [0.1, 0.1]) with
\* pool_size = 3, A and B are in the same front and C is in a later front.
C19_AAndBShareAFront ==
    Scenario =>
        /\ FrontIndex(IdOf(MetricsA)) = FrontIndex(IdOf(MetricsB))
        /\ FrontIndex(IdOf(MetricsC)) > FrontIndex(IdOf(MetricsA))

\* C19 as the code has it: A dominates B (0.9 >= 0.85 and 0.8 >= 0.75, both
\* strictly), so the peeling gives three fronts of one program: A in the
\* first, B in the second, C in the third.
C19_ThreeFrontsInOrder ==
    Scenario =>
        /\ Len(fronts) = 3
        /\ FrontIndex(IdOf(MetricsA)) = 1
        /\ FrontIndex(IdOf(MetricsB)) = 2
        /\ FrontIndex(IdOf(MetricsC)) = 3

\* the scenario, with C added to the repository first
C19_Witness ==
    /\ Scenario
    /\ IdOf(MetricsC) = 1

\* a call of sample_parent_inspiration_pairs has been made
Called == sample_pc # "idle"

\* C20: sample_parent_inspiration_pairs fails with the precondition error
\* when the repository holds fewer than two programs (and only then), and
\* when it holds exactly two programs every pair it has drawn consists of
\* exactly those two programs, for every n and every program_pool_size.
C20_TwoProgramsPairUp ==
    /\ (Called /\ Len(programs) < 2) => (sample_pc = "precondition" /\ pairs = <<>>)
    /\ sample_pc = "precondition" => Len(programs) < 2
    /\ (Called /\ Len(programs) = 2) =>
          \A i \in 1..Len(pairs) :
              /\ pairs[i][1] # pairs[i][2]
              /\ {pairs[i][1], pairs[i][2]} = IdsOf(programs)

\* a call on a repository of two programs returned its n >= 1 pairs
C20_Witness ==
    /\ Len(programs) = 2
    /\ sample_pc = "returned"
    /\ n_arg >= 1
    /\ Len(pairs) = n_arg

\* the parent and the inspiration of the i-th returned pair, and the branch
\* of the pairing loop that produced it
PairParent(i) == pairs[i][1]
PairInspiration(i) == pairs[i][2]
PairBranch(i) == pairs[i][3]

\* C21: every pair produced by sample_parent_inspiration_pairs holds two
\* distinct programs of the fronts; a same-front pair is two members of one
\* front, or of the union of the fronts when a front of one program exists to
\* be chosen; a cross-front pair has its parent in the first half of the
\* front list and its inspiration in the second half, so the parent's front
\* index is smaller than the inspiration's.
C21_PairsAreDistinctAndOrdered ==
    \A i \in 1..Len(pairs) :
        /\ PairParent(i) # PairInspiration(i)
        /\ FrontIndex(PairParent(i)) >= 1
        /\ FrontIndex(PairInspiration(i)) >= 1
        /\ PairBranch(i) = "same" =>
              \/ FrontIndex(PairParent(i)) = FrontIndex(PairInspiration(i))
              \/ \E f \in 1..Len(fronts) : Len(fronts[f]) = 1
        /\ PairBranch(i) = "cross" =>
              /\ FrontIndex(PairParent(i)) <= Len(fronts) \div 2
              /\ FrontIndex(PairInspiration(i)) > Len(fronts) \div 2
              /\ FrontIndex(PairParent(i)) < FrontIndex(PairInspiration(i))

\* a call on three fronts returned a cross-front pair, its parent from the
\* first front and its inspiration from the last
C21_Witness ==
    /\ sample_pc = "returned"
    /\ Len(fronts) = 3
    /\ Len(pairs) = 1
    /\ PairBranch(1) = "cross"
    /\ FrontIndex(PairParent(1)) = 1
    /\ FrontIndex(PairInspiration(1)) = 3

(***************************************************************************)
(* Properties of the stored repository.                                    *)
(***************************************************************************)
UniqueIds ==
    \A i, j \in 1..Len(programs) : i # j => programs[i].id # programs[j].id

\* the step is an add_program that returned
AddStep == store_op' = "add" /\ (store_op # "add" \/ programs' # programs)

\* C22: the programs of the repository have pairwise different ids at all
\* times, also after the repository was restored from a snapshot, and every
\* add_program that succeeds gives the new program the id size + 1, an id no
\* stored program has, keeps every stored program and grows the repository
\* by exactly one.
C22_SequentialUniqueIds ==
    /\ [](UniqueIds)
    /\ [][AddStep =>
            /\ Len(programs') = Len(programs) + 1
            /\ programs'[Len(programs')].id = Len(programs) + 1
            /\ programs'[Len(programs')].id \notin IdsOf(programs)
            /\ \A i \in 1..Len(programs) : programs'[i] = programs[i]]_vars

\* a program was added to a repository restored from a snapshot of two
C22_Witness ==
    /\ lib_state = "restored"
    /\ store_op = "add"
    /\ Len(programs) = 3
    /\ \E x \in DOMAIN files : files[x].closed /\ Len(files[x].entries) = 2

\* C23: an add_program whose metric map has no runs_successfully key ends
\* with the error of update_metrics and leaves the repository as it was: no
\* program is stored, and the add_program that succeeds next is given the
\* same id, size + 1, that this call would have used.
C23_NoViabilityKeyStoresNothing ==
    [][/\ "runs_successfully" \notin DOMAIN add_arg' =>
             /\ add_outcome' = "rejected"
             /\ programs' = programs
       /\ add_outcome' = "stored" =>
             /\ Len(programs') = Len(programs) + 1
             /\ programs'[Len(programs')].id = Len(programs) + 1]_vars

\* a call without the key was rejected by an empty repository
C23_Witness ==
    /\ add_outcome = "rejected"
    /\ "runs_successfully" \notin DOMAIN add_arg
    /\ "combined_score" \in DOMAIN add_arg
    /\ programs = <<>>

\* C24: every program add_program stores in generation 0 has creation
\* method "initial" (the seed programs) and no parent ids; every program
\* stored in a generation g > 0 has creation method "mutation" and exactly
\* two parent ids, those of the pair sampled for its slot, and both are ids
\* of programs of the repository as it was saved before generation g began.
C24_SeedsAndMutations ==
    [][programs' # programs =>
          LET new == programs'[Len(programs')]
          IN /\ generation = 0 =>
                   /\ new.creation_method = "initial"
                   /\ new.parent_ids = <<>>
             /\ generation > 0 =>
                   /\ new.creation_method = "mutation"
                   /\ Len(new.parent_ids) = 2
                   /\ new.parent_ids = parent_ids_list[fold_i]
                   /\ \A k \in 1..2 : new.parent_ids[k] \in IdsOf(snapshot)
                   /\ snapshot = SubSeq(programs, 1, Len(snapshot))
                   /\ \A k \in 1..2 : new.id > new.parent_ids[k]]_vars

\* the repository holds a seed program and a mutation of two stored programs
C24_Witness ==
    /\ generation > 0
    /\ \E i \in 1..Len(programs) : programs[i].creation_method = "initial"
    /\ \E i \in 1..Len(programs) :
          /\ programs[i].creation_method = "mutation"
          /\ Len(programs[i].parent_ids) = 2

\* C25: no operation on a repository (add_program, whether it stores or
\* raises, sample_parent_inspiration_pairs, the steps of save) changes a
\* field of a stored program or removes one: across every step that is not
\* the construction of a new repository, the programs held before are held
\* after, each with the fields it had, and the repository is not smaller.
C25_RepositoryOnlyGrows ==
    [][store_op' # "construct" =>
          /\ Len(programs') >= Len(programs)
          /\ \A i \in 1..Len(programs) : programs'[i] = programs[i]]_vars

\* three programs were added and saved, and pairs were sampled afterwards
C25_Witness ==
    /\ store_op = "sample"
    /\ lib_state = "live"
    /\ Len(programs) = 3
    /\ \E x \in DOMAIN files : files[x].closed /\ Len(files[x].entries) = 3

\* C26: when save() has returned and a repository is then constructed on
\* the same storage directory, the construction succeeds and the new
\* repository holds the programs the saved one held, each with the same id,
\* content, parent ids, creation method, metrics and metadata.
C26_SaveThenConstructRestores ==
    [][store_op = "save" /\ store_op' = "construct" =>
          /\ lib_state' = "restored"
          /\ Len(programs') = Len(programs)
          /\ \A i \in 1..Len(programs) :
                /\ programs'[i].id = programs[i].id
                /\ programs'[i].content = programs[i].content
                /\ programs'[i].parent_ids = programs[i].parent_ids
                /\ programs'[i].creation_method = programs[i].creation_method
                /\ programs'[i].metrics = programs[i].metrics
                /\ programs'[i].combined_score = programs[i].combined_score
                /\ programs'[i].metadata = programs[i].metadata]_vars

\* a repository of three programs, one with parents and one with metadata,
\* was restored from the later of two snapshot files
C26_Witness ==
    /\ store_op = "construct"
    /\ lib_state = "restored"
    /\ Len(programs) = 3
    /\ programs[3].parent_ids = <<1, 2>>
    /\ \E i \in 1..3 : programs[i].metadata # EmptyDict
    /\ Cardinality(DOMAIN files) = 2
    /\ \A x \in DOMAIN files : files[x].closed

\* C27: a repository constructed on a storage directory that holds snapshot
\* files, at any moment and also after a save() was interrupted, is
\* restored with the complete programs of a save() that finished: the
\* construction does not fail and does not see a file written in part.
C27_ConstructSeesOnlyFinishedSaves ==
    (store_op = "construct" /\ DOMAIN files # {}) =>
        /\ lib_state = "restored"
        /\ files[LatestFile(DOMAIN files)].closed
        /\ \E x \in DOMAIN files :
              files[x].closed /\ programs = LoadPrograms(files[x].entries)

(***************************************************************************)
(* Properties of the transport scope.                                      *)
(***************************************************************************)
Range(seq) == { seq[i] : i \in 1..Len(seq) }

\* __enter__ has ended and __exit__ has not begun
EntryEnded == ssh_pc \in {"in", "exec", "enter_raised"}

\* C28: once the key is loaded __enter__ tries every host of ip_pool, each
\* on its own: a host that fails to connect is recorded and skipped, the
\* hosts that connected keep their open sessions, the entry returns when at
\* least one host connected and raises exactly when none did, which after
\* the connection loop means that every host failed.
C28_EntryFailsOnlyWithoutAnyHost ==
    /\ ssh_pc = "connecting" =>
          /\ Range(connections) \cup Range(failed_connections)
                = { IpPool[i] : i \in 1..(ssh_i - 1) }
          /\ open_clients = Range(connections)
    /\ EntryEnded =>
          /\ ssh_pc = "enter_raised" <=> connections = <<>>
          /\ private_key = "loaded" =>
                /\ Range(connections) \cup Range(failed_connections) = Range(IpPool)
                /\ Range(connections) \cap Range(failed_connections) = {}
                /\ Len(connections) + Len(failed_connections) = Len(IpPool)
                /\ open_clients = Range(connections)
                /\ ssh_pc = "enter_raised" <=> Range(failed_connections) = Range(IpPool)

\* the first host failed to connect, the second connected, the scope is entered
C28_Witness ==
    /\ ssh_pc = "in"
    /\ failed_connections = <<IpPool[1]>>
    /\ connections = <<IpPool[2]>>
    /\ open_clients = {IpPool[2]}

\* execute_on_all has returned its results
ExecReturned == ssh_pc = "in" /\ exec_results # <<>>

\* C29: execute_on_all runs the command on the registered hosts one after
\* the other and records one entry per host, whether the command returned or
\* raised: the entry of a host that raised is ("", error text, -1), the
\* loop goes on with the next host, and the returned results hold exactly
\* one entry for every host with an open session.
C29_OneEntryPerHost ==
    /\ ssh_pc = "exec" =>
          /\ Len(exec_results) = ssh_i - 1
          /\ ssh_i <= Len(connections) + 1
    /\ ssh_pc \in {"exec", "in"} =>
          \A k \in 1..Len(exec_results) :
              /\ exec_results[k][1] = connections[k]
              /\ \/ exec_results[k][2] = Sentinel
                 \/ \E exit_code \in ExitCodes :
                       exec_results[k][2] = CommandOutput(exit_code)
    /\ ExecReturned =>
          /\ Len(exec_results) = Len(connections)
          /\ { exec_results[k][1] : k \in 1..Len(exec_results) } = open_clients

\* the command raised on the first of two hosts and ran on the second
C29_Witness ==
    /\ ExecReturned
    /\ Len(connections) = 2
    /\ exec_results[1] = <<connections[1], Sentinel>>
    /\ exec_results[2] = <<connections[2], CommandOutput(0)>>

\* the with statement has been left through __exit__
ScopeLeft == ssh_pc \in {"exited", "exit_raised"}

\* C30: when the scope of the transport has been left, every session is
\* closed and none is registered, also when a close failed, and an
\* exception the governed block raised is the one that reaches the caller.
C30_ExitClosesEverySession ==
    ScopeLeft =>
        /\ open_clients = {}
        /\ connections = <<>>
        /\ block_raised => leaving = "block"

(***************************************************************************)
(* Properties of the manager's entry.                                      *)
(***************************************************************************)
\* C31: a dependency install that exits non-zero ends __enter__ with the
\* RuntimeError and leaves no host available; when __enter__ returns, the
\* available pool is exactly the hosts that connected, each with an open
\* session, and every host acquire_ip has handed to a call is one of them.
C31_AvailableAreConnected ==
    /\ (install_code # -1 /\ install_code # 0) =>
          /\ ssh_pc = "enter_raised"
          /\ leaving = "RuntimeError"
          /\ available_ips = NoAvailableIps
    /\ ssh_pc = "in" =>
          /\ install_code = 0
          /\ available_ips = connections
          /\ Range(available_ips) = open_clients
          /\ Range(available_ips) \cap Range(failed_connections) = {}
    /\ ssh_pc # "in" => available_ips = NoAvailableIps /\ occupied_ips = {}
    /\ \A c \in Calls : ip[c] # NoIp => ip[c] \in open_clients
    /\ occupied_ips \subseteq open_clients

\* the first host failed to connect, the second connected, the install
\* succeeded and a call holds the second host
C31_Witness ==
    /\ ssh_pc = "in"
    /\ failed_connections = <<IpPool[1]>>
    /\ available_ips = <<IpPool[2]>>
    /\ \E c \in Calls : ip[c] = IpPool[2] /\ IpPool[2] \in occupied_ips

\* C37: when the manager's __enter__ fails after the transport connected,
\* because staging raised or the dependency install exited non-zero, every
\* session opened during the entry has been closed again.
C37_FailedEntryLeavesNoSession ==
    ssh_pc = "enter_raised" => open_clients = {}

(***************************************************************************)
(* Properties of the text-generation backends.                             *)
(***************************************************************************)
\* C32: on each backend _generate raises to its caller only when all the
\* attempts the configuration allows have failed, after a sleep of
\* retry_delay between any two attempts; before that it goes on to the
\* next attempt.
C32_RaisesOnlyAfterLastAttempt ==
    llm_pc = "raised" =>
        /\ llm_failed = llm_retries
        /\ llm_sleeps = llm_retries - 1

(***************************************************************************)
(* Properties of the state the evaluation tasks of a round share.          *)
(***************************************************************************)
\* the calls of execute_evaluation_auto that have started and not returned
RunningCalls == { c \in Calls : pc[c] \notin {"idle", "done"} }

\* C33: while two or more evaluation tasks run, no field of the manager
\* that the tasks share changes except the occupancy set, which changes
\* under the lock only: the host list, the cache and its entries, and the
\* wait timeout stay as they are.
C33_OnlyOccupancyIsShared ==
    [][Cardinality(RunningCalls) >= 2 =>
          UNCHANGED <<available_ips, cache_mode, cache_data, wait_timeout>>]_vars

(***************************************************************************)
(* Properties of extract_code.                                             *)
(***************************************************************************)
\* C34: the program text extract_code returns never contains a fence
\* marker, whatever the text-generation output was: complete blocks, only
\* an opening fence, only a closing fence, or no line break after the tag.
C34_NoFenceInProgramCode ==
    gen_pc = "check" => ~HasFence(program_code)

(***************************************************************************)
(* Properties of the polling loop.                                         *)
(***************************************************************************)
\* a pass of the loop of wait_for_result made by call c
PollPass(c) == pc[c] = "poll" /\ pc'[c] # "poll"

\* C35: wait_for_result returns a completed result only from a pass that
\* found a whole result artifact, and then returns its content; a pass
\* within the timeout that finds the artifact missing or partly written
\* goes to sleep and polls again; a pass at or after the timeout returns the
\* timeout failure; and every wait_for_result returns in the end.
C35_PollsUntilArtifactOrTimeout ==
    /\ [][\A c \in WaitCalls : PollPass(c) =>
            /\ elapsed' >= timeout_sec =>
                  /\ pc'[c] = "release"
                  /\ result'[c].completed = "no"
                  /\ result'[c].error = "timeout"
            /\ (elapsed' < timeout_sec /\ artifact[c] \in {Absent, Malformed}) =>
                  /\ pc'[c] = "sleep"
                  /\ result'[c] = result[c]
            /\ (elapsed' < timeout_sec /\ artifact[c] \notin {Absent, Malformed}) =>
                  /\ pc'[c] = "release"
                  /\ result'[c].completed = "yes"
                  /\ result'[c].success = artifact[c].success
                  /\ result'[c].result = artifact[c].result]_vars
    /\ \A c \in WaitCalls : (pc[c] = "poll") ~> (pc[c] = "release")

\* the artifact was only ever partly written and the call, having slept,
\* returned the timeout failure
C35_Witness ==
    /\ pc[1] = "release"
    /\ artifact[1] = Malformed
    /\ timeout_sec > 0
    /\ elapsed >= timeout_sec
    /\ result[1].error = "timeout"

(***************************************************************************)
(* Properties of a batch of execute_evaluation_auto calls.                 *)
(***************************************************************************)
\* C36: in a batch of calls made without wait_timeout, a call that has left
\* execute_evaluation and is about to leave execute_evaluation_auto has a
\* result to return, and when every call of the batch has ended no host is
\* marked occupied.
C36_CallsReturnAResultAndFreeHosts ==
    wait_timeout = "none" =>
        /\ \A c \in Calls : pc[c] = "release" => result[c] # Raised
        /\ (\A c \in Calls : pc[c] \in {"idle", "done"}) => occupied_ips = {}

\* C38: on a repository of two or more programs, for every n >= 0 and
\* every program_pool_size >= 1, sample_parent_inspiration_pairs does not
\* raise, returns exactly n pairs, and every program of a pair is one of
\* the top program_pool_size programs by combined_score.
C38_ReturnsNPairsFromTopPool ==
    (Called /\ Len(programs) >= 2 /\ pool_arg >= 1) =>
        /\ sample_pc # "raised"
        /\ sample_pc = "returned" => Len(pairs) = n_arg
        /\ \A i \in 1..Len(pairs) :
              {PairParent(i), PairInspiration(i)} \subseteq IdsOf(pool)

(***************************************************************************)
(* Properties of a round whose text generation fails.                      *)
(***************************************************************************)
\* C40: the step in which a gen_program call of a round ends with its
\* terminal failure raises out of create_generation: no candidate of the
\* round is handed to an evaluation, no program is added, no snapshot is
\* saved for the round, and after it the run takes no further step.
C40_LlmFailureEndsTheRound ==
    [][/\ eng_error = "llm" => UNCHANGED vars
       /\ (eng_error # "llm" /\ eng_error' = "llm") =>
             /\ eng_pc = "generate"
             /\ eng_pc' = "raised"
             /\ UNCHANGED <<programs, snapshot, save_log, program_list, poolvars>>
             /\ generation \notin Range(save_log')
             /\ \A c \in Calls : pc'[c] \in {"idle", "done"}]_vars

\* generation 0 was stored and saved, and a text-generation call of
\* generation 1 failed
C40_Witness ==
    /\ eng_error = "llm"
    /\ eng_pc = "raised"
    /\ generation = 1
    /\ programs # <<>>
    /\ save_log = <<0>>

(***************************************************************************)
(* Properties of the evaluation worker.                                    *)
(***************************************************************************)
\* C39: a worker that has run to its end has written the result artifact
\* exactly once, and the artifact is the whole document: success is true
\* with the metrics and the metadata evaluate returned exactly when
\* evaluate returned, otherwise success is false with the error text.  No
\* worker writes the artifact more than once.
C39_ArtifactWrittenOnce ==
    /\ writes <= 1
    /\ worker_pc = "ended" =>
          /\ writes = 1
          /\ output_file # Absent
          /\ Len(output_file) >= 4
          /\ Field(output_file, "success") = (evaluated.kind = "returned")
          /\ evaluated.kind = "returned" =>
                /\ Field(output_file, "result") = evaluated.metrics
                /\ Field(output_file, "metadata") = evaluated.metadata
                /\ Field(output_file, "error") = "none"
          /\ evaluated.kind # "returned" =>
                /\ Field(output_file, "result") = NoMetrics
                /\ Field(output_file, "error") # "none"

\* evaluate raised and the worker wrote the failure and ended
C39_Witness ==
    /\ worker_pc = "ended"
    /\ evaluated.kind = "raised"
    /\ writes = 1
    /\ Field(output_file, "success") = FALSE
    /\ Field(output_file, "error") = "EvaluateError"

====
